---- MODULE Spec2Model ----
(***************************************************************************)
(* Verification model of the aria_shell process-orchestration core:        *)
(*   - job::StateMachine::transition          (job_state.cpp)              *)
(*   - job::JobManager                        (job_control.cpp)            *)
(*   - job::RingBuffer, job::StreamDrainer    (stream_controller.cpp)      *)
(* Each part has its own specification over the shared variable tuple; a   *)
(* specification leaves the variables of the other parts at their idle     *)
(* values.                                                                 *)
(***************************************************************************)
EXTENDS Integers, Sequences, FiniteSets, TLC

VARIABLES
    \* ---- StateMachine harness
    smCur,       \* JobState argument of transition()
    smEv,        \* JobEvent argument of transition()
    smRes,       \* last TransitionResult, or NoResult before the call
    \* ---- RingBuffer (one instance)
    capacity,    \* RingBuffer::capacity
    buffer,      \* RingBuffer::buffer, index 0..capacity-1
    readPos,     \* RingBuffer::readPos
    writePos,    \* RingBuffer::writePos
    prod,        \* the producer thread's frame inside RingBuffer::write
    cons,        \* the consumer thread's frame inside RingBuffer::read
    nextByte,    \* next fresh byte value the producer will offer
    acceptedLog, \* ghost: every byte write() reported as accepted, in order
    readLog,     \* ghost: every byte read() returned, in order
    lastWrite,   \* ghost: <<data, return value>> of the last completed write
    lastRead,    \* ghost: bytes returned by the last completed read
    \* ---- JobManager
    platform,    \* "linux": processEvents uses epoll on pidfds;
                 \* "posix": the waitpid fallback of processEvents
    hasTty,      \* JobManager::hasTty
    inRawMode,   \* JobManager::inRawMode
    shellModes,  \* JobManager::shellModes
    nextJobId,   \* JobManager::nextJobId
    jobs,        \* key set of JobManager::jobs
    jstate,      \* JobControlBlock::state per job id
    jmodes,      \* JobControlBlock::hasSavedModes / savedModes per job id
    exitCode,    \* JobControlBlock::exitCode per job id
    fgMode,      \* StreamController::foregroundMode of the job's streams
    child,       \* kernel: the job's process (status, wait status, stop
                 \* not yet reported to waitpid)
    ttyOwner,    \* kernel: foreground process group of the terminal
    termModes,   \* kernel: current terminal modes
    sigLog,      \* every kill(-pgid, sig) issued, as <<job, sig>>
    notes,       \* every notifyStatusChange(job, old, new), in order
    mainPc,      \* the API call the main thread is inside of
    lastCall,    \* the last API call begun: operation, job, return value
    opsLeft,     \* API calls still allowed in this behaviour
    \* ---- one output channel of a StreamController: child, kernel pipe,
    \*      StreamDrainer, ring (the RingBuffer variables above), consumer
    chan,        \* StreamDrainer::stream_ (1, 2, 3 or 5)
    pipe,        \* kernel: bytes in the channel's pipe
    writerOpen,  \* kernel: the child still holds the pipe's write end
    left,        \* child: bytes it still has to write
    produced,    \* ghost: bytes the child has written so far
    drainer,     \* StreamDrainer: dropOnOverflow_ and the worker's frame
    bytesTransferred, \* StreamDrainer::bytesTransferred_
    appPc,       \* application thread: "free", or "wait" inside wait()
    foregroundMode, \* StreamController::foregroundMode
    dataLog,     \* every byte passed to the callbacks by notifyData, in order
    \* ---- the twelve pipe endpoints of one StreamController and the
    \*      descriptor tables of the parent and of the forked child
    ctl,         \* parent: how far the controller's life cycle has come
    pfds,        \* parent: HexStreamPipes::fds, entries 0..11
    ptable,      \* kernel: the parent's descriptor table
    cfds,        \* child: its copy of HexStreamPipes::fds
    ctable,      \* kernel: the child's descriptor table
    cpc,         \* child: "none", "forked", "program", "exited"
    inPipe,      \* kernel: bytes in channel 0's pipe
    cin,         \* child: outcome of its last read() on descriptor 0
    inCalls,     \* every writeStdin / closeStdin call, as <<name, result>>
    pcloses,     \* ghost: parent close() calls that closed each endpoint
    badCloses,   \* ghost: parent close() calls on a descriptor that is
                 \* not open or is not the endpoint the entry named
    fdOps,       \* parent calls still allowed in this behaviour
    \* ---- the shell's main thread and JobManager::jobsMutex
    lkPlatform,  \* "linux" or "posix", as platform above
    stack,       \* the main thread's call stack, signal handlers included
    held,        \* jobsMutex is locked
    fate,        \* "running", or how a lock() of the held mutex ended
    lkCalls,     \* top-level calls still allowed in this behaviour
    lkSigs,      \* signal deliveries still allowed in this behaviour
    \* ---- the handle map a Windows parent publishes to its child
    hmParent,    \* parent: WindowsBootstrap::childHandles_
    hmEnv,       \* child: the variable __ARIA_FD_MAP of its environment
    hmCmd,       \* child: the value of --aria-fd-map= on its command line
    hmLive,      \* kernel: the handle values that are open in the child
    hmHow,       \* who started the child: "none" yet, the parent with
                 \* useEnvVar ("env") or without ("flag"), or a "foreign"
                 \* launcher with a map string of its own
    hmRet        \* child: envVarFirst, the locals and the return value of
                 \* the completed retrieveHandleMap call

smVars == <<smCur, smEv, smRes>>
rbVars == <<capacity, buffer, readPos, writePos, prod, cons, nextByte,
            acceptedLog, readLog, lastWrite, lastRead>>
jmVars == <<platform, hasTty, inRawMode, shellModes,
            nextJobId, jobs, jstate, jmodes, exitCode,
            fgMode, child, ttyOwner, termModes, sigLog, notes, mainPc,
            lastCall, opsLeft>>
drVars == <<chan, pipe, writerOpen, left, produced, drainer,
            bytesTransferred, appPc, foregroundMode, dataLog>>
fdVars == <<ctl, pfds, ptable, cfds, ctable, cpc, inPipe, cin, inCalls,
            pcloses, badCloses, fdOps>>
lkVars == <<lkPlatform, stack, held, fate, lkCalls, lkSigs>>
hmVars == <<hmParent, hmEnv, hmCmd, hmLive, hmHow, hmRet>>
vars == <<smVars, rbVars, jmVars, drVars, fdVars, lkVars, hmVars>>

Min(a, b) == IF a < b THEN a ELSE b

(***************************************************************************)
(* JobState / JobEvent / TransitionResult                                  *)
(***************************************************************************)
JobState == {"NONE", "FOREGROUND", "BACKGROUND", "STOPPED", "TERMINATED"}

JobEvent == {"SPAWN", "SPAWN_BG", "CTRL_C", "CTRL_Z", "FG_CMD", "BG_CMD",
             "CHILD_EXIT", "CHILD_STOP", "TTY_READ", "TIMEOUT", "ERROR"}

ok(state) == [valid |-> TRUE, newState |-> state]

fail == [valid |-> FALSE, newState |-> "NONE"]

NoResult == [valid |-> FALSE, newState |-> "unset"]

\* Mutant of transition: the STOPPED row also accepts CHILD_STOP.
transition_stoppedAcceptsStop(current, event) ==
    CASE current = "NONE" ->
           (CASE event = "SPAWN"    -> ok("FOREGROUND")
              [] event = "SPAWN_BG" -> ok("BACKGROUND")
              [] OTHER              -> fail)
      [] current = "FOREGROUND" ->
           (CASE event = "CTRL_Z"     -> ok("STOPPED")
              [] event = "CTRL_C"     -> ok("TERMINATED")
              [] event = "CHILD_EXIT" -> ok("TERMINATED")
              [] event = "CHILD_STOP" -> ok("STOPPED")
              [] event = "ERROR"      -> ok("TERMINATED")
              [] OTHER                -> fail)
      [] current = "BACKGROUND" ->
           (CASE event = "FG_CMD"     -> ok("FOREGROUND")
              [] event = "BG_CMD"     -> ok("BACKGROUND")
              [] event = "CHILD_EXIT" -> ok("TERMINATED")
              [] event = "CHILD_STOP" -> ok("STOPPED")
              [] event = "TTY_READ"   -> ok("STOPPED")
              [] event = "ERROR"      -> ok("TERMINATED")
              [] OTHER                -> fail)
      [] current = "STOPPED" ->
           (CASE event = "FG_CMD"     -> ok("FOREGROUND")
              [] event = "BG_CMD"     -> ok("BACKGROUND")
              [] event = "CTRL_C"     -> ok("TERMINATED")
              [] event = "CHILD_EXIT" -> ok("TERMINATED")
              [] event = "CHILD_STOP" -> ok("STOPPED")
              [] event = "ERROR"      -> ok("TERMINATED")
              [] OTHER                -> fail)
      [] current = "TERMINATED" -> fail
      [] OTHER -> fail

\* StateMachine::transition: the nested switch, row by row.
transition(current, event) ==
    CASE current = "NONE" ->
           (CASE event = "SPAWN"    -> ok("FOREGROUND")
              [] event = "SPAWN_BG" -> ok("BACKGROUND")
              [] OTHER              -> fail)
      [] current = "FOREGROUND" ->
           (CASE event = "CTRL_Z"     -> ok("STOPPED")
              [] event = "CTRL_C"     -> ok("TERMINATED")
              [] event = "CHILD_EXIT" -> ok("TERMINATED")
              [] event = "CHILD_STOP" -> ok("STOPPED")
              [] event = "ERROR"      -> ok("TERMINATED")
              [] OTHER                -> fail)
      [] current = "BACKGROUND" ->
           (CASE event = "FG_CMD"     -> ok("FOREGROUND")
              [] event = "BG_CMD"     -> ok("BACKGROUND")
              [] event = "CHILD_EXIT" -> ok("TERMINATED")
              [] event = "CHILD_STOP" -> ok("STOPPED")
              [] event = "TTY_READ"   -> ok("STOPPED")
              [] event = "ERROR"      -> ok("TERMINATED")
              [] OTHER                -> fail)
      [] current = "STOPPED" ->
           (CASE event = "FG_CMD"     -> ok("FOREGROUND")
              [] event = "BG_CMD"     -> ok("BACKGROUND")
              [] event = "CTRL_C"     -> ok("TERMINATED")
              [] event = "CHILD_EXIT" -> ok("TERMINATED")
              [] event = "ERROR"      -> ok("TERMINATED")
              [] OTHER                -> fail)
      [] current = "TERMINATED" -> fail
      [] OTHER -> fail

canTransition(current, event) == transition(current, event).valid

(***************************************************************************)
(* RingBuffer                                                              *)
(***************************************************************************)
\* RingBuffer::available on the two loaded indices.
available(w, r, cap) == IF w >= r THEN w - r ELSE cap - r + w

\* Mutant of freeSpace: the reserved slot is forgotten.
freeSpace_noReservedSlot(w, r, cap) == cap - available(w, r, cap)

\* RingBuffer::freeSpace.
freeSpace(w, r, cap) == cap - available(w, r, cap) - 1

empty(w, r, cap) == available(w, r, cap) = 0

full(w, r, cap) == freeSpace(w, r, cap) = 0

\* The two memcpy calls of RingBuffer::write: toWrite bytes of src land at
\* wpos, wrapping to index 0 after capacity - wpos bytes.
copyIn(buf, wpos, src, toWrite, cap) ==
    LET firstPart == Min(toWrite, cap - wpos)
    IN  [i \in DOMAIN buf |->
            IF i >= wpos /\ i < wpos + firstPart THEN src[i - wpos + 1]
            ELSE IF toWrite > firstPart /\ i < toWrite - firstPart
                 THEN src[firstPart + i + 1]
            ELSE buf[i]]

\* Mutant of copyOut: the wrap-around second memcpy is left out; bytes past
\* the end of the storage repeat its last byte.
copyOut_noWrap(buf, rpos, toRead, cap) ==
    [k \in 1..toRead |->
        IF rpos + k - 1 < cap THEN buf[rpos + k - 1] ELSE buf[cap - 1]]

\* The two memcpy calls of RingBuffer::read / peek.
copyOut(buf, rpos, toRead, cap) ==
    LET firstPart == Min(toRead, cap - rpos)
    IN  [k \in 1..toRead |->
            IF k <= firstPart THEN buf[rpos + k - 1]
            ELSE buf[k - firstPart - 1]]

\* The ring as a value, for callers that use write/read as one step.
Ring(buf, r, w, cap) == [buffer |-> buf, readPos |-> r, writePos |-> w,
                         capacity |-> cap]

\* RingBuffer::write as a whole: returns the new ring and the bytes accepted.
RingWrite(rb, data) ==
    LET free    == freeSpace(rb.writePos, rb.readPos, rb.capacity)
        toWrite == Min(Len(data), free)
    IN  IF toWrite = 0 THEN [rb |-> rb, n |-> 0]
        ELSE [rb |-> [rb EXCEPT
                        !.buffer = copyIn(rb.buffer, rb.writePos, data,
                                          toWrite, rb.capacity),
                        !.writePos = (rb.writePos + toWrite) % rb.capacity],
              n |-> toWrite]

\* RingBuffer::read as a whole: returns the new ring and the bytes read.
RingRead(rb, maxSize) ==
    LET avail  == available(rb.writePos, rb.readPos, rb.capacity)
        toRead == Min(maxSize, avail)
    IN  IF toRead = 0 THEN [rb |-> rb, data |-> <<>>]
        ELSE [rb |-> [rb EXCEPT
                        !.readPos = (rb.readPos + toRead) % rb.capacity],
              data |-> copyOut(rb.buffer, rb.readPos, toRead, rb.capacity)]

\* The ring of the state, as a value.
ThisRing == Ring(buffer, readPos, writePos, capacity)

(***************************************************************************)
(* Bounds                                                                  *)
(***************************************************************************)
MaxCap      == 3   \* ring capacities 1..MaxCap
MaxBytes    == 4   \* bytes the producer gets accepted in one behaviour
MaxWriteLen == 3   \* size argument of write
MaxReadLen  == 3   \* maxSize argument of read
MaxJobs     == 2   \* job ids 1..MaxJobs
MaxOps      == 4   \* JobManager API calls in one behaviour
MaxChildBytes == 9 \* bytes a child writes to its channel, 0..MaxChildBytes
PipeCap     == 4   \* kernel pipe capacity, scaled down from 65536
ReadBufSize == 2   \* drainLoop's local readBuffer, scaled down from 4096
DrainRingCap == 3  \* capacity of the channel's ring, scaled down from 1 MiB
MaxFlushLen == 2   \* maxSize of a consumer read of the channel's ring

FlushBufSize == 2  \* flushBuffers' local buf, scaled down from 4096
MaxShellFds == 7   \* descriptors 0..n-1 the shell has open, n in 3..MaxShellFds
MaxFdOps    == 4   \* writeStdin / closeStdin / close calls in one behaviour
InPipeCap   == 2   \* capacity of channel 0's pipe, scaled down from 65536
MaxLkCalls  == 2   \* top-level JobManager calls of the main thread
MaxLkSigs   == 2   \* signals delivered to the main thread
MaxHandle   == 17  \* handle values 0..MaxHandle the parent may hold
PtrBits     == 8   \* width of HANDLE / uintptr_t, scaled down from 64
MaxPairs    == 2   \* pairs in a map string of a foreign launcher

(***************************************************************************)
(* Idle values of each part                                                *)
(***************************************************************************)
IdleFrame == [pc |-> "idle"]

SMIdle == smCur = "NONE" /\ smEv = "TIMEOUT" /\ smRes = NoResult

RBIdle ==
    /\ capacity = 1 /\ buffer = [i \in 0..0 |-> 0]
    /\ readPos = 0 /\ writePos = 0
    /\ prod = IdleFrame /\ cons = IdleFrame
    /\ nextByte = 1 /\ acceptedLog = <<>> /\ readLog = <<>>
    /\ lastWrite = <<>> /\ lastRead = <<>>

JobIds == 1..MaxJobs

NoChild == [st |-> "none", wstatus |-> 0, stopPending |-> FALSE]

\* Terminal modes are compared, never inspected: the shell's own modes, the
\* modes a job's program has set, or none when there is no terminal.
ShellModes == <<"shell", 0>>

JobModes(j) == <<"job", j>>

NoTermModes == <<"none", 0>>

\* Process groups: a job's pgid is modelled by its job id, the shell's
\* (JobManager::shellPgid) by 0; NoTty stands for "no terminal".
shellPgid == 0

NoTty == -1

NoModes == [has |-> FALSE, modes |-> NoTermModes]

IdleCall == [op |-> "idle"]

JMIdle ==
    /\ platform = "linux" /\ hasTty = FALSE /\ nextJobId = 1 /\ jobs = {}
    /\ inRawMode = FALSE /\ shellModes = NoTermModes
    /\ jstate = [j \in JobIds |-> "NONE"]
    /\ jmodes = [j \in JobIds |-> NoModes]
    /\ exitCode = [j \in JobIds |-> 0]
    /\ fgMode = [j \in JobIds |-> FALSE]
    /\ child = [j \in JobIds |-> NoChild]
    /\ ttyOwner = NoTty /\ termModes = NoTermModes
    /\ sigLog = <<>> /\ notes = <<>>
    /\ mainPc = IdleCall /\ lastCall = IdleCall /\ opsLeft = 0

\* The worker of a StreamDrainer that has not been constructed: pc is the
\* worker's position, drop is dropOnOverflow_, data the part of readBuffer
\* still to be written to the ring, n the result of read(), hup whether
\* revents had POLLHUP, stop the state of the jthread's stop token.
NoDrainer == [pc |-> "none", drop |-> FALSE, data |-> <<>>, n |-> 0,
              hup |-> FALSE, stop |-> FALSE]

DRIdle ==
    /\ chan = 1 /\ pipe = <<>> /\ writerOpen = FALSE /\ left = 0
    /\ produced = 0 /\ drainer = NoDrainer
    /\ bytesTransferred = 0 /\ appPc = "free"
    /\ foregroundMode = TRUE /\ dataLog = <<>>

\* Descriptor tables map a descriptor number to what it refers to: one of
\* the endpoints 0..11 (endpoint 2i is the read end and 2i+1 the write end
\* of channel i's pipe), the shell's own terminal, or nothing.
Endpoints == 0..11

Closed == -1

Tty == 100

FdNums == 0..(MaxShellFds + 11)

NoFds == [i \in Endpoints |-> -1]

FDIdle ==
    /\ ctl = "new" /\ pfds = NoFds /\ cfds = NoFds
    /\ ptable = [f \in FdNums |-> Closed]
    /\ ctable = [f \in FdNums |-> Closed]
    /\ cpc = "none" /\ inPipe = 0 /\ cin = "none" /\ inCalls = <<>>
    /\ pcloses = [e \in Endpoints |-> 0] /\ badCloses = 0 /\ fdOps = 0

LKIdle ==
    /\ lkPlatform = "linux" /\ stack = <<>> /\ held = FALSE
    /\ fate = "running" /\ lkCalls = 0 /\ lkSigs = 0

\* INVALID_HANDLE_VALUE is (HANDLE)-1: every bit of the pointer set.
INVALID_HANDLE_VALUE == 2^PtrBits - 1

\* A default-constructed WindowsHandleMap, indexed by stream number.
EmptyMap == [i \in 0..5 |-> INVALID_HANDLE_VALUE]

\* An environment variable or command-line flag: whether it is there, and
\* its value as a sequence of characters.
Absent == [set |-> FALSE, val |-> <<>>]

NoRetrieve == [called |-> FALSE, envVarFirst |-> TRUE, first |-> EmptyMap,
               fellBack |-> FALSE, second |-> EmptyMap, result |-> EmptyMap]

HMIdle ==
    /\ hmParent = EmptyMap /\ hmEnv = Absent /\ hmCmd = Absent
    /\ hmLive = {} /\ hmHow = "none" /\ hmRet = NoRetrieve

(***************************************************************************)
(* Specification SpecSM: transition() applied to every (state, event)      *)
(***************************************************************************)
SMInit == /\ smCur \in JobState /\ smEv \in JobEvent /\ smRes = NoResult
          /\ RBIdle /\ JMIdle /\ DRIdle /\ FDIdle /\ LKIdle /\ HMIdle

\* Call transition(smCur, smEv).
SMApply ==
    /\ smRes = NoResult
    /\ smRes' = transition(smCur, smEv)
    /\ UNCHANGED <<smCur, smEv, rbVars, jmVars, drVars, fdVars, lkVars, hmVars>>

\* A valid result becomes the job's state; the next event arrives.
SMFollow ==
    /\ smRes # NoResult /\ smRes.valid
    /\ smCur' = smRes.newState
    /\ smEv' \in JobEvent
    /\ smRes' = NoResult
    /\ UNCHANGED <<rbVars, jmVars, drVars, fdVars, lkVars, hmVars>>

\* An invalid result leaves the state alone; the next event arrives.
SMReject ==
    /\ smRes # NoResult /\ ~smRes.valid
    /\ smEv' \in JobEvent
    /\ smRes' = NoResult
    /\ UNCHANGED <<smCur, rbVars, jmVars, drVars, fdVars, lkVars, hmVars>>

SMNext == SMApply \/ SMFollow \/ SMReject

SpecSM == SMInit /\ [][SMNext]_vars

(***************************************************************************)
(* Specification SpecRing: one producer in write(), one consumer in read() *)
(* on the same RingBuffer, interleaved at the granularity of the atomic    *)
(* loads and stores of readPos / writePos.                                 *)
(***************************************************************************)
RBInit ==
    /\ SMIdle /\ JMIdle /\ DRIdle /\ FDIdle /\ LKIdle /\ HMIdle
    /\ capacity \in 1..MaxCap
    /\ buffer = [i \in 0..(capacity - 1) |-> 0]
    /\ readPos = 0 /\ writePos = 0
    /\ prod = IdleFrame /\ cons = IdleFrame
    /\ nextByte = 1 /\ acceptedLog = <<>> /\ readLog = <<>>
    /\ lastWrite = <<>> /\ lastRead = <<>>

\* The bytes the producer offers: fresh values, starting at nextByte.
Fresh(len) == [k \in 1..len |-> nextByte + k - 1]

\* write(), up to the early return: freeSpace() loads both indices, toWrite
\* is fixed, wpos is loaded.
WriteBegin(len) ==
    /\ prod.pc = "idle"
    /\ nextByte + len - 1 <= MaxBytes
    /\ LET toWrite == Min(len, freeSpace(writePos, readPos, capacity))
       IN  IF toWrite = 0
           THEN /\ lastWrite' = <<Fresh(len), 0>>
                /\ prod' = prod
           ELSE /\ prod' = [pc |-> "copy", data |-> Fresh(len),
                            toWrite |-> toWrite, wpos |-> writePos]
                /\ lastWrite' = lastWrite
    /\ UNCHANGED <<smVars, jmVars,
                   drVars,
                   fdVars, lkVars, hmVars, capacity, buffer, readPos, writePos, cons,
                   nextByte, acceptedLog, readLog, lastRead>>

\* write(): the memcpy calls.
WriteCopy ==
    /\ prod.pc = "copy"
    /\ buffer' = copyIn(buffer, prod.wpos, prod.data, prod.toWrite, capacity)
    /\ prod' = [prod EXCEPT !.pc = "store"]
    /\ UNCHANGED <<smVars, jmVars,
                   drVars,
                   fdVars, lkVars, hmVars, capacity, readPos, writePos, cons, nextByte,
                   acceptedLog, readLog, lastWrite, lastRead>>

\* write(): writePos.store(release) and return toWrite.
WriteStore ==
    /\ prod.pc = "store"
    /\ writePos' = (prod.wpos + prod.toWrite) % capacity
    /\ acceptedLog' = acceptedLog \o SubSeq(prod.data, 1, prod.toWrite)
    /\ lastWrite' = <<prod.data, prod.toWrite>>
    /\ nextByte' = nextByte + prod.toWrite
    /\ prod' = IdleFrame
    /\ UNCHANGED <<smVars, jmVars,
                   drVars,
                   fdVars, lkVars, hmVars, capacity, buffer, readPos, cons, readLog, lastRead>>

\* read(), up to the early return.
ReadBegin(maxSize) ==
    /\ cons.pc = "idle"
    /\ LET toRead == Min(maxSize, available(writePos, readPos, capacity))
       IN  IF toRead = 0
           THEN /\ lastRead' = <<>>
                /\ cons' = cons
           ELSE /\ cons' = [pc |-> "copy", toRead |-> toRead,
                            rpos |-> readPos, out |-> <<>>]
                /\ lastRead' = lastRead
    /\ UNCHANGED <<smVars, jmVars,
                   drVars,
                   fdVars, lkVars, hmVars, capacity, buffer, readPos, writePos, prod,
                   nextByte, acceptedLog, readLog, lastWrite>>

\* read(): the memcpy calls.
ReadCopy ==
    /\ cons.pc = "copy"
    /\ cons' = [cons EXCEPT !.pc = "store",
                            !.out = copyOut(buffer, cons.rpos, cons.toRead,
                                            capacity)]
    /\ UNCHANGED <<smVars, jmVars,
                   drVars,
                   fdVars, lkVars, hmVars, capacity, buffer, readPos, writePos, prod,
                   nextByte, acceptedLog, readLog, lastWrite, lastRead>>

\* read(): readPos.store(release) and return toRead.
ReadStore ==
    /\ cons.pc = "store"
    /\ readPos' = (cons.rpos + cons.toRead) % capacity
    /\ readLog' = readLog \o cons.out
    /\ lastRead' = cons.out
    /\ cons' = IdleFrame
    /\ UNCHANGED <<smVars, jmVars,
                   drVars,
                   fdVars, lkVars, hmVars, capacity, buffer, writePos, prod, nextByte,
                   acceptedLog, lastWrite>>

RBNext ==
    \/ \E len \in 1..MaxWriteLen : WriteBegin(len)
    \/ WriteCopy
    \/ WriteStore
    \/ \E maxSize \in 1..MaxReadLen : ReadBegin(maxSize)
    \/ ReadCopy
    \/ ReadStore

SpecRing == RBInit /\ [][RBNext]_vars

(***************************************************************************)
(* Specification SpecJob: JobManager.  The main thread runs the API calls  *)
(* one at a time; foreground, background and handleCtrlZ take two steps    *)
(* (reading the job's state, then acting on it) because processEvents runs *)
(* from the SIGCHLD handler or an event thread and may come in between.    *)
(***************************************************************************)
SigNum(sig) == CASE sig = "SIGINT"  -> 2
                 [] sig = "SIGKILL" -> 9
                 [] sig = "SIGTERM" -> 15
                 [] sig = "SIGCONT" -> 18
                 [] sig = "SIGTSTP" -> 20
                 [] sig = "SIGTTIN" -> 21

\* Kernel: what a signal with default disposition does to a process.
Deliver(c, sig) ==
    CASE sig = "SIGCONT" /\ c.st = "stopped" ->
           [c EXCEPT !.st = "running", !.stopPending = FALSE]
      [] sig = "SIGTSTP" /\ c.st = "running" ->
           [c EXCEPT !.st = "stopped", !.stopPending = TRUE]
      [] sig \in {"SIGINT", "SIGTERM"} /\ c.st = "running" ->
           [c EXCEPT !.st = "zombie_sig", !.wstatus = SigNum(sig)]
      [] sig = "SIGKILL" /\ c.st \in {"running", "stopped"} ->
           [c EXCEPT !.st = "zombie_sig", !.wstatus = SigNum(sig),
                     !.stopPending = FALSE]
      [] OTHER -> c

\* Kernel: kill(-pgid, sig) == 0 iff the process group still exists.
KillOk(c) == c.st \in {"running", "stopped", "zombie_exit", "zombie_sig"}

JMInit ==
    /\ SMIdle /\ RBIdle /\ DRIdle /\ FDIdle /\ LKIdle /\ HMIdle
    /\ platform \in {"linux", "posix"}
    /\ hasTty \in BOOLEAN
    /\ nextJobId = 1 /\ jobs = {}
    /\ jstate = [j \in JobIds |-> "NONE"]
    /\ jmodes = [j \in JobIds |-> NoModes]
    /\ exitCode = [j \in JobIds |-> 0]
    /\ fgMode = [j \in JobIds |-> FALSE]
    /\ child = [j \in JobIds |-> NoChild]
    /\ ttyOwner = (IF hasTty THEN shellPgid ELSE NoTty)
    /\ termModes = (IF hasTty THEN ShellModes ELSE NoTermModes)
    /\ inRawMode = FALSE
    /\ shellModes = (IF hasTty THEN ShellModes ELSE NoTermModes)
    /\ sigLog = <<>> /\ notes = <<>>
    /\ mainPc = IdleCall /\ lastCall = IdleCall /\ opsLeft = MaxOps

CallBegins == mainPc = IdleCall /\ opsLeft > 0 /\ opsLeft' = opsLeft - 1

\* Return values as integers: bool as 0 / 1, Pending while the call runs.
RetFalse == 0

RetTrue == 1

Pending == -1

Bool(b) == IF b THEN RetTrue ELSE RetFalse

Returned(op, j, ret) == [op |-> op, job |-> j, ret |-> ret]

\* The frame of a call between its state.exchange() and its notification.
Notifying(call, j, old, new) ==
    [op |-> "notify", call |-> call, job |-> j, old |-> old, new |-> new]

\* Mutant of Spawn: the id is read from nextJobId without the increment.
Spawn_idNotAdvanced(bg, outcome) ==
    /\ CallBegins
    /\ nextJobId <= MaxJobs
    /\ nextJobId' = nextJobId
    /\ IF outcome = "ok"
       THEN LET id == nextJobId IN
            /\ jobs' = jobs \cup {id}
            /\ jstate' = [jstate EXCEPT
                            ![id] = IF bg THEN "BACKGROUND" ELSE "FOREGROUND"]
            /\ child' = [child EXCEPT ![id] = [NoChild EXCEPT !.st = "running"]]
            /\ IF ~bg /\ hasTty
               THEN /\ jmodes' = [jmodes EXCEPT
                                    ![id] = [has |-> TRUE, modes |-> termModes]]
                    /\ ttyOwner' = id
               ELSE UNCHANGED <<jmodes, ttyOwner>>
            /\ fgMode' = [fgMode EXCEPT ![id] = ~bg]
            /\ lastCall' = Returned("spawn", id, id)
       ELSE /\ UNCHANGED <<jobs, jstate, child, jmodes, ttyOwner, fgMode>>
            /\ lastCall' = Returned("spawn", 0, 0)
    /\ UNCHANGED <<platform, hasTty, inRawMode, shellModes,
                   exitCode, termModes, sigLog, notes,
                   mainPc, smVars, rbVars, drVars, fdVars, lkVars, hmVars>>

\* JobManager::spawn.  outcome: "ok", or the step that fails.
Spawn(bg, outcome) ==
    /\ CallBegins
    /\ nextJobId <= MaxJobs
    /\ nextJobId' = nextJobId + 1
    /\ IF outcome = "ok"
       THEN LET id == nextJobId IN
            /\ jobs' = jobs \cup {id}
            /\ jstate' = [jstate EXCEPT
                            ![id] = IF bg THEN "BACKGROUND" ELSE "FOREGROUND"]
            /\ child' = [child EXCEPT ![id] = [NoChild EXCEPT !.st = "running"]]
            /\ IF ~bg /\ hasTty
               THEN /\ jmodes' = [jmodes EXCEPT
                                    ![id] = [has |-> TRUE, modes |-> termModes]]
                    /\ ttyOwner' = id
               ELSE UNCHANGED <<jmodes, ttyOwner>>
            /\ fgMode' = [fgMode EXCEPT ![id] = ~bg]
            /\ lastCall' = Returned("spawn", id, id)
       ELSE /\ UNCHANGED <<jobs, jstate, child, jmodes, ttyOwner, fgMode>>
            /\ lastCall' = Returned("spawn", 0, 0)
    /\ UNCHANGED <<platform, hasTty, inRawMode, shellModes,
                   exitCode, termModes, sigLog, notes,
                   mainPc, smVars, rbVars, drVars, fdVars, lkVars, hmVars>>

\* Mutant of FgBegin: the test of result.valid is left out.
FgBegin_noValidityCheck(j) ==
    /\ CallBegins
    /\ LET result == transition(jstate[j], "FG_CMD") IN
       IF j \notin jobs
       THEN /\ lastCall' = Returned("foreground", j, RetFalse)
            /\ mainPc' = mainPc
       ELSE /\ lastCall' = Returned("foreground", j, Pending)
            /\ mainPc' = [op |-> "foreground", job |-> j,
                          current |-> jstate[j], newState |-> result.newState]
    /\ UNCHANGED <<platform, hasTty, inRawMode, shellModes,
                   nextJobId, jobs, jstate, jmodes, exitCode,
                   fgMode, child, ttyOwner, termModes, sigLog, notes,
                   smVars, rbVars, drVars, fdVars, lkVars, hmVars>>

\* JobManager::foreground up to the validity check: getJob, state.load,
\* transition(current, FG_CMD), and the two early returns.
FgBegin(j) ==
    /\ CallBegins
    /\ LET result == transition(jstate[j], "FG_CMD") IN
       IF j \notin jobs \/ ~result.valid
       THEN /\ lastCall' = Returned("foreground", j, RetFalse)
            /\ mainPc' = mainPc
       ELSE /\ lastCall' = Returned("foreground", j, Pending)
            /\ mainPc' = [op |-> "foreground", job |-> j,
                          current |-> jstate[j], newState |-> result.newState]
    /\ UNCHANGED <<platform, hasTty, inRawMode, shellModes,
                   nextJobId, jobs, jstate, jmodes, exitCode,
                   fgMode, child, ttyOwner, termModes, sigLog, notes,
                   smVars, rbVars, drVars, fdVars, lkVars, hmVars>>

\* JobManager::foreground after the check: SIGCONT if the job was stopped,
\* then, with a terminal, tcsetpgrp(ttyFd, job->pgid).
FgHandOver ==
    /\ mainPc.op = "foreground"
    /\ LET j == mainPc.job
           cont == mainPc.current = "STOPPED"
       IN
       /\ sigLog' = IF cont THEN Append(sigLog, <<j, "SIGCONT">>) ELSE sigLog
       /\ child' = IF cont THEN [child EXCEPT ![j] = Deliver(child[j], "SIGCONT")]
                   ELSE child
       /\ ttyOwner' = IF hasTty THEN j ELSE ttyOwner
       /\ mainPc' = [mainPc EXCEPT !.op = "foregroundModes"]
    /\ UNCHANGED <<platform, hasTty, inRawMode, shellModes,
                   nextJobId, jobs, jstate, jmodes, exitCode,
                   fgMode, termModes, notes, lastCall, opsLeft,
                   smVars, rbVars, drVars, fdVars, lkVars, hmVars>>

\* JobManager::foreground, the rest: with a terminal, tcsetattr of the
\* job's saved modes; setForegroundMode(true) and state.exchange; the
\* notification is still to come.
FgCommit ==
    /\ mainPc.op = "foregroundModes"
    /\ LET j == mainPc.job IN
       /\ termModes' = IF hasTty /\ jmodes[j].has THEN jmodes[j].modes
                       ELSE termModes
       /\ fgMode' = [fgMode EXCEPT ![j] = TRUE]
       /\ jstate' = [jstate EXCEPT ![j] = mainPc.newState]
       /\ mainPc' = Notifying("foreground", j, jstate[j], mainPc.newState)
    /\ UNCHANGED <<platform, hasTty, inRawMode, shellModes,
                   nextJobId, jobs, jmodes, exitCode,
                   child, ttyOwner, sigLog, notes, lastCall, opsLeft,
                   smVars, rbVars, drVars, fdVars, lkVars, hmVars>>

\* JobManager::background up to the validity check.
BgBegin(j, resume) ==
    /\ CallBegins
    /\ LET result == transition(jstate[j], "BG_CMD") IN
       IF j \notin jobs \/ ~result.valid
       THEN /\ lastCall' = Returned("background", j, RetFalse)
            /\ mainPc' = mainPc
       ELSE /\ lastCall' = Returned("background", j, Pending)
            /\ mainPc' = [op |-> "background", job |-> j, resume |-> resume,
                          current |-> jstate[j], newState |-> result.newState]
    /\ UNCHANGED <<platform, hasTty, inRawMode, shellModes,
                   nextJobId, jobs, jstate, jmodes, exitCode,
                   fgMode, child, ttyOwner, termModes, sigLog, notes,
                   smVars, rbVars, drVars, fdVars, lkVars, hmVars>>

\* JobManager::background after the check.
BgCommit ==
    /\ mainPc.op = "background"
    /\ LET j == mainPc.job
           cont == mainPc.resume /\ mainPc.current = "STOPPED"
       IN
       /\ sigLog' = IF cont THEN Append(sigLog, <<j, "SIGCONT">>) ELSE sigLog
       /\ child' = IF cont THEN [child EXCEPT ![j] = Deliver(child[j], "SIGCONT")]
                   ELSE child
       /\ ttyOwner' = IF hasTty THEN shellPgid ELSE ttyOwner
       /\ fgMode' = [fgMode EXCEPT ![j] = FALSE]
       /\ jstate' = [jstate EXCEPT ![j] = mainPc.newState]
       /\ mainPc' = Notifying("background", j, jstate[j], mainPc.newState)
    /\ UNCHANGED <<platform, hasTty, inRawMode, shellModes,
                   nextJobId, jobs, jmodes, exitCode,
                   termModes, notes, lastCall, opsLeft, smVars, rbVars,
                   drVars, fdVars, lkVars, hmVars>>

\* JobManager::sendSignal, shared by stop and terminate.
SendSignal(op, j, sig) ==
    /\ CallBegins
    /\ IF j \notin jobs
       THEN /\ lastCall' = Returned(op, j, RetFalse)
            /\ UNCHANGED <<sigLog, child>>
       ELSE /\ sigLog' = Append(sigLog, <<j, sig>>)
            /\ child' = [child EXCEPT ![j] = Deliver(child[j], sig)]
            /\ lastCall' = Returned(op, j, Bool(KillOk(child[j])))
    /\ UNCHANGED <<platform, hasTty, inRawMode, shellModes,
                   nextJobId, jobs, jstate, jmodes, exitCode,
                   fgMode, ttyOwner, termModes, notes, mainPc,
                   smVars, rbVars, drVars, fdVars, lkVars, hmVars>>

\* JobManager::stop.
Stop(j) == SendSignal("stop", j, "SIGTSTP")

\* JobManager::terminate.
Terminate(j, force) ==
    SendSignal("terminate", j, IF force THEN "SIGKILL" ELSE "SIGTERM")

\* JobManager::getForegroundJob: some job in state FOREGROUND (the table is
\* an unordered_map, so which one is not determined), or none.
ForegroundJobs == {j \in jobs : jstate[j] = "FOREGROUND"}

\* JobManager::handleCtrlC.
HandleCtrlC ==
    /\ CallBegins
    /\ IF ForegroundJobs = {}
       THEN /\ UNCHANGED <<sigLog, child>>
            /\ lastCall' = Returned("handleCtrlC", 0, RetFalse)
       ELSE \E j \in ForegroundJobs :
            /\ sigLog' = Append(sigLog, <<j, "SIGINT">>)
            /\ child' = [child EXCEPT ![j] = Deliver(child[j], "SIGINT")]
            /\ lastCall' = Returned("handleCtrlC", j, RetTrue)
    /\ UNCHANGED <<platform, hasTty, inRawMode, shellModes,
                   nextJobId, jobs, jstate, jmodes, exitCode,
                   fgMode, ttyOwner, termModes, notes, mainPc,
                   smVars, rbVars, drVars, fdVars, lkVars, hmVars>>

\* Mutant of CtrlZBegin: the job is looked up without the test of its state.
CtrlZBegin_anyJob ==
    /\ CallBegins
    /\ IF jobs = {}
       THEN /\ lastCall' = Returned("handleCtrlZ", 0, RetFalse)
            /\ mainPc' = mainPc
       ELSE \E j \in jobs :
            /\ lastCall' = Returned("handleCtrlZ", j, Pending)
            /\ mainPc' = [op |-> "handleCtrlZ", job |-> j]
    /\ UNCHANGED <<platform, hasTty, inRawMode, shellModes,
                   nextJobId, jobs, jstate, jmodes, exitCode,
                   fgMode, child, ttyOwner, termModes, sigLog, notes,
                   smVars, rbVars, drVars, fdVars, lkVars, hmVars>>

\* JobManager::handleCtrlZ: getForegroundJob and the test of its result.
CtrlZBegin ==
    /\ CallBegins
    /\ IF ForegroundJobs = {}
       THEN /\ lastCall' = Returned("handleCtrlZ", 0, RetFalse)
            /\ mainPc' = mainPc
       ELSE \E j \in ForegroundJobs :
            /\ lastCall' = Returned("handleCtrlZ", j, Pending)
            /\ mainPc' = [op |-> "handleCtrlZ", job |-> j]
    /\ UNCHANGED <<platform, hasTty, inRawMode, shellModes,
                   nextJobId, jobs, jstate, jmodes, exitCode,
                   fgMode, child, ttyOwner, termModes, sigLog, notes,
                   smVars, rbVars, drVars, fdVars, lkVars, hmVars>>

\* Mutant of CtrlZCommit: the job's modes are read after the shell's modes
\* have been restored.
CtrlZCommit_savesAfterRestore ==
    /\ mainPc.op = "handleCtrlZ"
    /\ LET j == mainPc.job IN
       /\ sigLog' = Append(sigLog, <<j, "SIGTSTP">>)
       /\ child' = [child EXCEPT ![j] = Deliver(child[j], "SIGTSTP")]
       /\ IF hasTty
          THEN /\ ttyOwner' = shellPgid
               /\ termModes' = shellModes
               /\ jmodes' = [jmodes EXCEPT
                               ![j] = [has |-> TRUE, modes |-> shellModes]]
          ELSE UNCHANGED <<ttyOwner, jmodes, termModes>>
       /\ jstate' = [jstate EXCEPT ![j] = "STOPPED"]
       /\ mainPc' = Notifying("handleCtrlZ", j, jstate[j], "STOPPED")
    /\ UNCHANGED <<platform, hasTty, inRawMode, shellModes,
                   nextJobId, jobs, exitCode, fgMode,
                   notes, lastCall, opsLeft, smVars, rbVars, drVars,
                   fdVars, lkVars, hmVars>>

\* JobManager::handleCtrlZ: SIGTSTP, terminal reclaimed, the job's modes
\* saved, the shell's restored, state.exchange(STOPPED); the notification
\* is still to come.
CtrlZCommit ==
    /\ mainPc.op = "handleCtrlZ"
    /\ LET j == mainPc.job IN
       /\ sigLog' = Append(sigLog, <<j, "SIGTSTP">>)
       /\ child' = [child EXCEPT ![j] = Deliver(child[j], "SIGTSTP")]
       /\ IF hasTty
          THEN /\ ttyOwner' = shellPgid
               /\ jmodes' = [jmodes EXCEPT
                               ![j] = [has |-> TRUE, modes |-> termModes]]
               /\ termModes' = shellModes
          ELSE UNCHANGED <<ttyOwner, jmodes, termModes>>
       /\ jstate' = [jstate EXCEPT ![j] = "STOPPED"]
       /\ mainPc' = Notifying("handleCtrlZ", j, jstate[j], "STOPPED")
    /\ UNCHANGED <<platform, hasTty, inRawMode, shellModes,
                   nextJobId, jobs, exitCode, fgMode,
                   notes, lastCall, opsLeft, smVars, rbVars, drVars,
                   fdVars, lkVars, hmVars>>

\* The call's last statement, notifyStatusChange(jobId, oldState, newState)
\* with the value state.exchange() returned, and its return. A signal
\* handler can run between the exchange and this.
NotifyReturn ==
    /\ mainPc.op = "notify"
    /\ notes' = Append(notes, <<mainPc.job, mainPc.old, mainPc.new>>)
    /\ lastCall' = Returned(mainPc.call, mainPc.job, RetTrue)
    /\ mainPc' = IdleCall
    /\ UNCHANGED <<platform, hasTty, inRawMode, shellModes,
                   nextJobId, jobs, jstate, jmodes, exitCode,
                   fgMode, child, ttyOwner, termModes, sigLog, opsLeft,
                   smVars, rbVars, drVars, fdVars, lkVars, hmVars>>

\* struct termios raw = shellModes with ICANON, ECHO, ISIG, IXON and ICRNL
\* cleared and VMIN = 1, VTIME = 0.
Raw(m) == <<"raw", m[2]>>

\* What a terminal function leaves alone.
TermFrame ==
    UNCHANGED <<platform, hasTty, nextJobId, jobs, jstate, jmodes, exitCode,
                fgMode, child, ttyOwner, sigLog, notes, mainPc,
                smVars, rbVars, drVars, fdVars, lkVars, hmVars>>

\* JobManager::saveTerminalModes; done: whether tcgetattr succeeds.
SaveTerminalModes(done) ==
    /\ CallBegins
    /\ IF ~hasTty
       THEN /\ lastCall' = Returned("saveTerminalModes", 0, RetTrue)
            /\ UNCHANGED shellModes
       ELSE /\ lastCall' = Returned("saveTerminalModes", 0, Bool(done))
            /\ shellModes' = IF done THEN termModes ELSE shellModes
    /\ UNCHANGED <<termModes, inRawMode>>
    /\ TermFrame

\* JobManager::restoreTerminalModes; done: whether tcsetattr succeeds.
RestoreTerminalModes(done) ==
    /\ CallBegins
    /\ IF ~hasTty
       THEN /\ lastCall' = Returned("restoreTerminalModes", 0, RetTrue)
            /\ UNCHANGED termModes
       ELSE /\ lastCall' = Returned("restoreTerminalModes", 0, Bool(done))
            /\ termModes' = IF done THEN shellModes ELSE termModes
    /\ UNCHANGED <<shellModes, inRawMode>>
    /\ TermFrame

\* Mutant of EnterRawMode: the early return without a terminal is left out,
\* and tcsetattr fails on a descriptor that is no terminal.
EnterRawMode_noTtyCheck(done) ==
    /\ CallBegins
    /\ IF done /\ hasTty
       THEN /\ lastCall' = Returned("enterRawMode", 0, RetTrue)
            /\ termModes' = Raw(shellModes) /\ inRawMode' = TRUE
       ELSE /\ lastCall' = Returned("enterRawMode", 0, RetFalse)
            /\ UNCHANGED <<termModes, inRawMode>>
    /\ UNCHANGED shellModes
    /\ TermFrame

\* JobManager::enterRawMode; done: whether tcsetattr succeeds.
EnterRawMode(done) ==
    /\ CallBegins
    /\ IF ~hasTty
       THEN /\ lastCall' = Returned("enterRawMode", 0, RetTrue)
            /\ UNCHANGED <<termModes, inRawMode>>
       ELSE IF done
       THEN /\ lastCall' = Returned("enterRawMode", 0, RetTrue)
            /\ termModes' = Raw(shellModes) /\ inRawMode' = TRUE
       ELSE /\ lastCall' = Returned("enterRawMode", 0, RetFalse)
            /\ UNCHANGED <<termModes, inRawMode>>
    /\ UNCHANGED shellModes
    /\ TermFrame

\* JobManager::exitRawMode; done: whether tcsetattr succeeds.
ExitRawMode(done) ==
    /\ CallBegins
    /\ IF ~hasTty
       THEN /\ lastCall' = Returned("exitRawMode", 0, RetTrue)
            /\ UNCHANGED <<termModes, inRawMode>>
       ELSE IF done
       THEN /\ lastCall' = Returned("exitRawMode", 0, RetTrue)
            /\ termModes' = shellModes /\ inRawMode' = FALSE
       ELSE /\ lastCall' = Returned("exitRawMode", 0, RetFalse)
            /\ UNCHANGED <<termModes, inRawMode>>
    /\ UNCHANGED shellModes
    /\ TermFrame

\* The part of the job table that processEvents works on.
Table0 == [jstate |-> jstate, exitCode |-> exitCode, child |-> child,
           notes |-> notes, count |-> 0]

\* JobManager::reapJob (with the ++count of its caller): waitpid(WNOHANG),
\* exit code from the wait status, then state.exchange(TERMINATED) and
\* the notification, whatever waitpid returned.
reapJob(S, j) ==
    LET c == S.child[j]
        reaped == c.st \in {"zombie_exit", "zombie_sig"}
    IN  [S EXCEPT
           !.exitCode[j] = IF c.st = "zombie_exit" THEN c.wstatus
                           ELSE IF c.st = "zombie_sig" THEN 128 + c.wstatus
                           ELSE @,
           !.child[j] = IF reaped THEN [c EXCEPT !.st = "reaped"] ELSE c,
           !.jstate[j] = "TERMINATED",
           !.notes = Append(@, <<j, S.jstate[j], "TERMINATED">>),
           !.count = @ + 1]

\* Kernel: the job's pidfd is readable once its process has terminated, and
\* stays readable (it is never removed from the epoll set).
PidfdReadable(c) == c.st \in {"zombie_exit", "zombie_sig", "reaped"}

\* The body of the fallback loop of processEvents for one job:
\* waitpid(WNOHANG | WUNTRACED), then WIFEXITED / WIFSTOPPED.
pollJob(S, j) ==
    LET c == S.child[j] IN
    IF S.jstate[j] = "TERMINATED" THEN S
    ELSE IF c.st = "zombie_exit"
    THEN [S EXCEPT !.exitCode[j] = c.wstatus,
                   !.child[j] = [c EXCEPT !.st = "reaped"],
                   !.jstate[j] = "TERMINATED",
                   !.notes = Append(@, <<j, S.jstate[j], "TERMINATED">>),
                   !.count = @ + 1]
    ELSE IF c.st = "stopped" /\ c.stopPending
    THEN [S EXCEPT !.child[j] = [c EXCEPT !.stopPending = FALSE],
                   !.jstate[j] = "STOPPED",
                   !.notes = Append(@, <<j, S.jstate[j], "STOPPED">>),
                   !.count = @ + 1]
    ELSE IF c.st = "zombie_sig"
    THEN [S EXCEPT !.child[j] = [c EXCEPT !.st = "reaped"]]
    ELSE S

\* The orders in which a loop over the job table may visit the job ids.
Orders == {o \in [JobIds -> JobIds] : \A a, b \in JobIds : a # b => o[a] # o[b]}

RECURSIVE processFrom(_, _, _)
\* The loop of processEvents from position k of the visiting order.
processFrom(S, order, k) ==
    IF k > MaxJobs THEN S
    ELSE LET j == order[k]
             T == IF j \notin jobs THEN S
                  ELSE IF platform = "linux"
                       THEN (IF PidfdReadable(S.child[j]) THEN reapJob(S, j)
                             ELSE S)
                       ELSE pollJob(S, j)
         IN  processFrom(T, order, k + 1)

\* JobManager::processEvents, from the main loop, wait(), or the SIGCHLD
\* handler; it can come between the two steps of a call of the main thread.
ProcessEvents ==
    /\ opsLeft > 0 /\ opsLeft' = opsLeft - 1
    /\ \E order \in Orders :
         LET S == processFrom(Table0, order, 1) IN
         /\ jstate' = S.jstate
         /\ exitCode' = S.exitCode
         /\ child' = S.child
         /\ notes' = S.notes
         /\ lastCall' = IF mainPc = IdleCall
                        THEN Returned("processEvents", 0, S.count)
                        ELSE lastCall
    /\ UNCHANGED <<platform, hasTty, inRawMode, shellModes,
                   nextJobId, jobs, jmodes, fgMode,
                   ttyOwner, termModes, sigLog, mainPc, smVars, rbVars,
                   drVars, fdVars, lkVars, hmVars>>

\* Kernel: the job's program exits with a status of its own.
ChildExits(j, status) ==
    /\ child[j].st = "running"
    /\ child' = [child EXCEPT ![j] = [@ EXCEPT !.st = "zombie_exit",
                                               !.wstatus = status]]
    /\ UNCHANGED <<platform, hasTty, inRawMode, shellModes,
                   nextJobId, jobs, jstate, jmodes, exitCode,
                   fgMode, ttyOwner, termModes, sigLog, notes, mainPc,
                   lastCall, opsLeft, smVars, rbVars, drVars, fdVars, lkVars, hmVars>>

\* Kernel: a process outside the terminal's foreground group reads the
\* terminal and is stopped by SIGTTIN.
ChildTtyRead(j) ==
    /\ hasTty /\ child[j].st = "running" /\ ttyOwner # j
    /\ child' = [child EXCEPT ![j] = [@ EXCEPT !.st = "stopped",
                                               !.stopPending = TRUE]]
    /\ UNCHANGED <<platform, hasTty, inRawMode, shellModes,
                   nextJobId, jobs, jstate, jmodes, exitCode,
                   fgMode, ttyOwner, termModes, sigLog, notes, mainPc,
                   lastCall, opsLeft, smVars, rbVars, drVars, fdVars, lkVars, hmVars>>

\* Kernel: the program that owns the terminal changes the terminal modes.
ChildSetsModes(j) ==
    /\ hasTty /\ child[j].st = "running" /\ ttyOwner = j
    /\ termModes # JobModes(j)
    /\ termModes' = JobModes(j)
    /\ UNCHANGED <<platform, hasTty, inRawMode, shellModes,
                   nextJobId, jobs, jstate, jmodes, exitCode,
                   fgMode, child, ttyOwner, sigLog, notes, mainPc,
                   lastCall, opsLeft, smVars, rbVars, drVars, fdVars, lkVars, hmVars>>

JMNext ==
    \/ \E bg \in BOOLEAN, outcome \in {"ok", "pipeFail", "forkFail"} :
          Spawn(bg, outcome)
    \/ \E j \in JobIds : FgBegin(j)
    \/ FgHandOver
    \/ FgCommit
    \/ \E j \in JobIds, resume \in BOOLEAN : BgBegin(j, resume)
    \/ BgCommit
    \/ \E j \in JobIds : Stop(j)
    \/ \E j \in JobIds, force \in BOOLEAN : Terminate(j, force)
    \/ HandleCtrlC
    \/ CtrlZBegin
    \/ CtrlZCommit
    \/ NotifyReturn
    \/ \E done \in BOOLEAN : SaveTerminalModes(done)
    \/ \E done \in BOOLEAN : RestoreTerminalModes(done)
    \/ \E done \in BOOLEAN : EnterRawMode(done)
    \/ \E done \in BOOLEAN : ExitRawMode(done)
    \/ ProcessEvents
    \/ \E j \in JobIds, status \in {0, 1} : ChildExits(j, status)
    \/ \E j \in JobIds : ChildTtyRead(j)
    \/ \E j \in JobIds : ChildSetsModes(j)

SpecJob == JMInit /\ [][JMNext]_vars

(***************************************************************************)
(* Specification SpecDrain: one output channel of a spawned child, from    *)
(* the child's write end through the kernel pipe and the StreamDrainer to  *)
(* the channel's ring and the application's reads                          *)
(***************************************************************************)
OutChannels == {1, 2, 3, 5}

\* The dropOnOverflow argument startDraining() passes for each channel.
dropOnOverflow_allBlock(ch) == FALSE

dropOnOverflow(ch) == ch = 3

\* The count of discarded bytes an observer can obtain from a StreamDrainer:
\* the drop branch of drainLoop is empty and the class has no such member,
\* so the count stays at its initial value.
dropCounter == 0

DRInit ==
    /\ SMIdle /\ JMIdle /\ FDIdle /\ LKIdle /\ HMIdle
    /\ chan \in OutChannels
    /\ left \in 0..MaxChildBytes
    /\ pipe = <<>> /\ writerOpen = TRUE /\ produced = 0
    /\ drainer = NoDrainer /\ bytesTransferred = 0 /\ appPc = "free"
    /\ foregroundMode = TRUE /\ dataLog = <<>>
    /\ capacity = DrainRingCap
    /\ buffer = [i \in 0..(capacity - 1) |-> 0]
    /\ readPos = 0 /\ writePos = 0
    /\ prod = IdleFrame /\ cons = IdleFrame
    /\ nextByte = 1 /\ acceptedLog = <<>> /\ readLog = <<>>
    /\ lastWrite = <<>> /\ lastRead = <<>>

\* What a drain step leaves alone.
DrainFrame == UNCHANGED <<smVars, jmVars,
                   fdVars, lkVars, hmVars, capacity, prod, cons, lastWrite,
                          lastRead, chan, foregroundMode, dataLog>>

\* The worker continues after a chunk: break on POLLHUP, else poll again.
AfterChunk(hup) == IF hup THEN "done" ELSE "poll"

\* The child's write(2) on the channel: blocks while the pipe is full,
\* otherwise transfers what fits.
ChildWrite(k) ==
    /\ writerOpen /\ left > 0
    /\ k \in 1..Min(left, PipeCap - Len(pipe))
    /\ pipe' = pipe \o Fresh(k)
    /\ nextByte' = nextByte + k
    /\ produced' = produced + k
    /\ left' = left - k
    /\ UNCHANGED <<writerOpen, drainer, bytesTransferred, appPc, buffer,
                   readPos, writePos, acceptedLog, readLog>>
    /\ DrainFrame

\* The child has written everything and exits: its write end is closed.
ChildExit ==
    /\ writerOpen /\ left = 0
    /\ writerOpen' = FALSE
    /\ UNCHANGED <<pipe, left, produced, drainer, bytesTransferred, appPc,
                   buffer, readPos, writePos, nextByte, acceptedLog, readLog>>
    /\ DrainFrame

\* startDraining(): construct the channel's StreamDrainer with its policy.
StartDraining ==
    /\ drainer.pc = "none"
    /\ drainer' = [drainer EXCEPT !.pc = "poll",
                                  !.drop = dropOnOverflow(chan)]
    /\ UNCHANGED <<pipe, writerOpen, left, produced, bytesTransferred, appPc,
                   buffer, readPos, writePos, nextByte, acceptedLog, readLog>>
    /\ DrainFrame

\* One iteration of drainLoop's while loop, up to the first write to the
\* ring: poll() reports POLLIN when the pipe holds data and POLLHUP when the
\* write end is closed (both when it is closed with data left); read()
\* takes at most the local buffer's size; the ring accepts what fits. On a
\* short write the drop policy discards the rest and the block policy
\* enters the retry loop. A poll() that times out changes nothing.
DrainPoll ==
    /\ drainer.pc = "poll"
    /\ Len(pipe) > 0 \/ ~writerOpen
    /\ LET hup == ~writerOpen
       IN  IF Len(pipe) > 0
           THEN LET n    == Min(Len(pipe), ReadBufSize)
                    data == SubSeq(pipe, 1, n)
                    w    == RingWrite(ThisRing, data)
                IN  /\ pipe' = SubSeq(pipe, n + 1, Len(pipe))
                    /\ buffer' = w.rb.buffer
                    /\ writePos' = w.rb.writePos
                    /\ acceptedLog' = acceptedLog \o SubSeq(data, 1, w.n)
                    /\ IF w.n < n /\ ~drainer.drop
                       THEN /\ drainer' = [drainer EXCEPT
                                   !.pc = "retry",
                                   !.data = SubSeq(data, w.n + 1, n),
                                   !.n = n, !.hup = hup]
                            /\ UNCHANGED bytesTransferred
                       ELSE /\ drainer' = [drainer EXCEPT
                                   !.pc = AfterChunk(hup)]
                            /\ bytesTransferred' = bytesTransferred + n
           ELSE /\ drainer' = [drainer EXCEPT !.pc = "done"]
                /\ UNCHANGED <<pipe, buffer, writePos, acceptedLog,
                               bytesTransferred>>
    /\ UNCHANGED <<writerOpen, left, produced, appPc, readPos, nextByte,
                   readLog>>
    /\ DrainFrame

\* Mutant of DrainRetry: remaining is reduced by the chunk but remainingData
\* is not advanced.
DrainRetry_pointerNotAdvanced ==
    /\ drainer.pc = "retry"
    /\ LET w    == RingWrite(ThisRing, drainer.data)
           rest == SubSeq(drainer.data, 1, Len(drainer.data) - w.n)
       IN  /\ w.n > 0
           /\ buffer' = w.rb.buffer
           /\ writePos' = w.rb.writePos
           /\ acceptedLog' = acceptedLog \o SubSeq(drainer.data, 1, w.n)
           /\ IF rest = <<>>
              THEN /\ drainer' = [drainer EXCEPT
                          !.pc = AfterChunk(drainer.hup), !.data = <<>>,
                          !.n = 0, !.hup = FALSE]
                   /\ bytesTransferred' = bytesTransferred + drainer.n
              ELSE /\ drainer' = [drainer EXCEPT !.data = rest]
                   /\ UNCHANGED bytesTransferred
    /\ UNCHANGED <<pipe, writerOpen, left, produced, appPc, readPos,
                   nextByte, readLog>>
    /\ DrainFrame

\* One productive iteration of the block policy's retry loop: the ring
\* accepts a chunk of the remaining bytes. While the ring is full the loop
\* only yields, which changes nothing.
DrainRetry ==
    /\ drainer.pc = "retry"
    /\ LET w    == RingWrite(ThisRing, drainer.data)
           rest == SubSeq(drainer.data, w.n + 1, Len(drainer.data))
       IN  /\ w.n > 0
           /\ buffer' = w.rb.buffer
           /\ writePos' = w.rb.writePos
           /\ acceptedLog' = acceptedLog \o SubSeq(drainer.data, 1, w.n)
           /\ IF rest = <<>>
              THEN /\ drainer' = [drainer EXCEPT
                          !.pc = AfterChunk(drainer.hup), !.data = <<>>,
                          !.n = 0, !.hup = FALSE]
                   /\ bytesTransferred' = bytesTransferred + drainer.n
              ELSE /\ drainer' = [drainer EXCEPT !.data = rest]
                   /\ UNCHANGED bytesTransferred
    /\ UNCHANGED <<pipe, writerOpen, left, produced, appPc, readPos,
                   nextByte, readLog>>
    /\ DrainFrame

\* The application reads the channel's ring (readBuffer); it cannot while
\* it is inside wait().
ConsumerRead(maxSize) ==
    /\ appPc = "free"
    /\ LET r == RingRead(ThisRing, maxSize)
       IN  /\ r.data # <<>>
           /\ readPos' = r.rb.readPos
           /\ readLog' = readLog \o r.data
    /\ UNCHANGED <<pipe, writerOpen, left, produced, drainer,
                   bytesTransferred, appPc, buffer, writePos, nextByte,
                   acceptedLog>>
    /\ DrainFrame

\* What flushBuffers() takes out of one ring: read() into its local buffer
\* until the ring is empty, each chunk handed to notifyData.
RECURSIVE FlushRing(_)
FlushRing(rb) ==
    LET r == RingRead(rb, FlushBufSize)
    IN  IF r.data = <<>>
        THEN [rb |-> rb, data |-> <<>>]
        ELSE LET rest == FlushRing(r.rb)
             IN  [rb |-> rest.rb, data |-> r.data \o rest.data]

\* The application calls flushBuffers(): what the ring holds goes to the
\* registered callbacks.
FlushBuffers ==
    /\ appPc = "free"
    /\ LET f == FlushRing(ThisRing)
       IN  /\ f.data # <<>>
           /\ readPos' = f.rb.readPos
           /\ readLog' = readLog \o f.data
           /\ dataLog' = dataLog \o f.data
    /\ UNCHANGED <<pipe, writerOpen, left, produced, drainer,
                   bytesTransferred, appPc, buffer, writePos, nextByte,
                   acceptedLog>>
    /\ UNCHANGED <<smVars, jmVars, fdVars, lkVars, hmVars, capacity, prod, cons,
                   lastWrite, lastRead, chan, foregroundMode>>

\* The application calls setForegroundMode(foreground).
SetForegroundMode(foreground) ==
    /\ appPc = "free"
    /\ foreground # foregroundMode
    /\ foregroundMode' = foreground
    /\ UNCHANGED <<pipe, writerOpen, left, produced, drainer,
                   bytesTransferred, appPc, buffer, readPos, writePos,
                   nextByte, acceptedLog, readLog>>
    /\ UNCHANGED <<smVars, jmVars, fdVars, lkVars, hmVars, capacity, prod, cons,
                   lastWrite, lastRead, chan, dataLog>>

\* The bytes the StreamController has written to the host's terminal
\* output: drainLoop only writes to the ring and nothing else reads
\* foregroundMode, so there are none.
ttyOut == <<>>

\* The application calls HexStreamProcess::wait() on the spawned child.
AppWait ==
    /\ appPc = "free" /\ drainer.pc # "none" /\ writerOpen
    /\ appPc' = "wait"
    /\ UNCHANGED <<pipe, writerOpen, left, produced, drainer,
                   bytesTransferred, buffer, readPos, writePos, nextByte,
                   acceptedLog, readLog>>
    /\ DrainFrame

\* wait() returns once the child has exited.
WaitReturn ==
    /\ appPc = "wait" /\ ~writerOpen
    /\ appPc' = "free"
    /\ UNCHANGED <<pipe, writerOpen, left, produced, drainer,
                   bytesTransferred, buffer, readPos, writePos, nextByte,
                   acceptedLog, readLog>>
    /\ DrainFrame

ChildStep == ChildExit \/ \E k \in 1..PipeCap : ChildWrite(k)

DrainerStep == StartDraining \/ DrainPoll \/ DrainRetry

DRNext ==
    \/ \E k \in 1..PipeCap : ChildWrite(k)
    \/ ChildExit
    \/ StartDraining
    \/ DrainPoll
    \/ DrainRetry
    \/ \E m \in 1..MaxFlushLen : ConsumerRead(m)
    \/ FlushBuffers
    \/ \E f \in BOOLEAN : SetForegroundMode(f)
    \/ AppWait
    \/ WaitReturn

SpecDrain == DRInit /\ [][DRNext]_vars

\* The child, the drainer thread and the return of wait() are scheduled
\* fairly; nothing obliges the application to read the ring.
FairDrain ==
    /\ SpecDrain
    /\ WF_vars(ChildStep) /\ WF_vars(DrainerStep) /\ WF_vars(WaitReturn)

(***************************************************************************)
(* Specification SpecCancel: the channel of SpecDrain with cancellation:   *)
(* StreamController::close() / stopDraining() destroy the StreamDrainer,   *)
(* whose jthread requests stop and joins the worker                        *)
(***************************************************************************)
\* A loop iteration of the worker: both loops of drainLoop test
\* stop_requested() before each iteration. An iteration that is under way
\* when the request is made is one that completed just before it.
CancelPoll == ~drainer.stop /\ DrainPoll

CancelRetry == ~drainer.stop /\ DrainRetry

\* stopDraining(): drainers[i].reset() runs ~jthread, which requests stop
\* and then blocks the caller in join().
RequestStop ==
    /\ appPc = "free" /\ drainer.pc \in {"poll", "retry", "done"}
    /\ drainer' = [drainer EXCEPT !.stop = TRUE]
    /\ appPc' = "join"
    /\ UNCHANGED <<pipe, writerOpen, left, produced, bytesTransferred,
                   buffer, readPos, writePos, nextByte, acceptedLog, readLog>>
    /\ DrainFrame

\* Mutant of StopExit: the retry loop does not test the stop token.
StopExit_retryIgnoresStop ==
    /\ drainer.stop /\ drainer.pc = "poll"
    /\ drainer' = [drainer EXCEPT !.pc = "done"]
    /\ UNCHANGED <<pipe, writerOpen, left, produced, bytesTransferred, appPc,
                   buffer, readPos, writePos, nextByte, acceptedLog, readLog>>
    /\ DrainFrame

\* The worker sees the stop request at the head of the outer loop (after a
\* poll() of at most 100 ms) or of the retry loop; from the retry loop it
\* still adds n to bytesTransferred_ before it leaves. The bytes of the
\* local buffer that were not written stay in data.
StopExit ==
    /\ drainer.stop /\ drainer.pc \in {"poll", "retry"}
    /\ drainer' = [drainer EXCEPT !.pc = "done"]
    /\ bytesTransferred' = IF drainer.pc = "retry"
                           THEN bytesTransferred + drainer.n
                           ELSE bytesTransferred
    /\ UNCHANGED <<pipe, writerOpen, left, produced, appPc,
                   buffer, readPos, writePos, nextByte, acceptedLog, readLog>>
    /\ DrainFrame

\* join() returns once the worker has left drainLoop.
JoinReturn ==
    /\ appPc = "join" /\ drainer.pc = "done"
    /\ drainer' = [drainer EXCEPT !.pc = "joined"]
    /\ appPc' = "free"
    /\ UNCHANGED <<pipe, writerOpen, left, produced, bytesTransferred,
                   buffer, readPos, writePos, nextByte, acceptedLog, readLog>>
    /\ DrainFrame

CNNext ==
    \/ \E k \in 1..PipeCap : ChildWrite(k)
    \/ ChildExit
    \/ StartDraining
    \/ CancelPoll
    \/ CancelRetry
    \/ \E m \in 1..MaxFlushLen : ConsumerRead(m)
    \/ RequestStop
    \/ StopExit
    \/ JoinReturn

SpecCancel == DRInit /\ [][CNNext]_vars

\* Only the worker thread and the return of join() are scheduled fairly:
\* neither the child nor a consumer has to do anything.
FairCancel == SpecCancel /\ WF_vars(StopExit) /\ WF_vars(JoinReturn)

(***************************************************************************)
(* Specification SpecFd: the pipe endpoints of one StreamController from   *)
(* createPipes() through fork, setupChild() / setupParent(), writeStdin(), *)
(* closeStdin() and close() to the destructor                              *)
(***************************************************************************)
IsReadEnd(e) == e \in Endpoints /\ e % 2 = 0

IsWriteEnd(e) == e \in Endpoints /\ e % 2 = 1

\* The ends the six channels give to the child: it reads channels 0 and 4
\* and writes the others.
ChildSide(k) == IF k \in {0, 4} THEN 2 * k ELSE 2 * k + 1

\* The kernel hands out the lowest descriptor that is not open.
LowestFree(t) ==
    CHOOSE f \in FdNums :
        t[f] = Closed /\ \A g \in FdNums : g < f => t[g] # Closed

\* The parent side as a value: fds, descriptor table and the close ghosts.
Parent == [fds |-> pfds, table |-> ptable, closes |-> pcloses,
           bad |-> badCloses]

\* ::close(fds[i]) in the parent. The call is counted as bad when the
\* descriptor is not open or no longer refers to the endpoint entry i named.
sysClose(P, i) ==
    LET f == P.fds[i]
    IN  IF f \in FdNums /\ P.table[f] = i
        THEN [P EXCEPT !.table[f] = Closed, !.closes[i] = @ + 1]
        ELSE IF f \in FdNums /\ P.table[f] \in Endpoints
        THEN [P EXCEPT !.table[f] = Closed,
                       !.closes[P.table[f]] = @ + 1, !.bad = @ + 1]
        ELSE [P EXCEPT !.bad = @ + 1]

\* Mutant of closeEntry: the entry is not reset to -1 after the close.
closeEntry_keepsFd(P, i) == IF P.fds[i] >= 0 THEN sysClose(P, i) ELSE P

\* if (fds[i] >= 0) { ::close(fds[i]); fds[i] = -1; }
closeEntry(P, i) ==
    IF P.fds[i] >= 0 THEN [sysClose(P, i) EXCEPT !.fds[i] = -1] ELSE P

\* HexStreamPipes::close(): entries i..11 in turn.
RECURSIVE pipesClose(_, _)
pipesClose(P, i) == IF i > 11 THEN P ELSE pipesClose(closeEntry(P, i), i + 1)

\* The loop of createPipes(): pipes i..n-1 are created in turn, each taking
\* the two lowest free descriptors, read end first.
RECURSIVE makePipes(_, _, _)
makePipes(P, i, n) ==
    IF i >= n THEN P
    ELSE LET rd == LowestFree(P.table)
             t1 == [P.table EXCEPT ![rd] = 2 * i]
             wr == LowestFree(t1)
             t2 == [t1 EXCEPT ![wr] = 2 * i + 1]
         IN  makePipes([P EXCEPT !.table = t2, !.fds[2 * i] = rd,
                                 !.fds[2 * i + 1] = wr], i + 1, n)

\* setupParent(): the six child-side entries are closed without a test and
\* set to -1.
RECURSIVE parentCloses(_, _)
parentCloses(P, todo) ==
    IF todo = <<>> THEN P
    ELSE parentCloses([sysClose(P, Head(todo)) EXCEPT !.fds[Head(todo)] = -1],
                      Tail(todo))

SetupParentEntries == <<0, 3, 5, 7, 8, 11>>

\* setupChild(): dup2(pipes.fds[2k+1], k) for k = 0..5, giving up at the
\* first failure, then ::close of every original descriptor.
RECURSIVE childDups(_, _, _)
childDups(t, fds, k) ==
    IF k > 5 THEN [ok |-> TRUE, table |-> t]
    ELSE LET old == fds[2 * k + 1]
         IN  IF old \notin FdNums \/ t[old] = Closed
             THEN [ok |-> FALSE, table |-> t]
             ELSE childDups([t EXCEPT ![k] = t[old]], fds, k + 1)

RECURSIVE childCloses(_, _, _)
childCloses(t, fds, i) ==
    IF i > 11 THEN t
    ELSE childCloses(IF fds[i] >= 0 THEN [t EXCEPT ![fds[i]] = Closed] ELSE t,
                     fds, i + 1)

setupChild(t, fds) ==
    LET d == childDups(t, fds, 0)
    IN  IF d.ok THEN [ok |-> TRUE, table |-> childCloses(d.table, fds, 0)]
        ELSE d

\* Some descriptor of some process refers to endpoint e.
EndpointOpen(pt, ct, e) ==
    \E f \in FdNums : pt[f] = e \/ ct[f] = e

FDInit ==
    /\ SMIdle /\ RBIdle /\ JMIdle /\ DRIdle /\ LKIdle /\ HMIdle
    /\ ctl = "new" /\ pfds = NoFds /\ cfds = NoFds
    /\ \E n \in 3..MaxShellFds :
           ptable = [f \in FdNums |-> IF f < n THEN Tty ELSE Closed]
    /\ ctable = [f \in FdNums |-> Closed]
    /\ cpc = "none" /\ inPipe = 0 /\ cin = "none" /\ inCalls = <<>>
    /\ pcloses = [e \in Endpoints |-> 0] /\ badCloses = 0
    /\ fdOps = MaxFdOps

FdFrame == UNCHANGED <<smVars, rbVars, jmVars, drVars, lkVars, hmVars>>

\* The parent side of the state becomes P.
ParentBecomes(P) ==
    /\ pfds' = P.fds /\ ptable' = P.table
    /\ pcloses' = P.closes /\ badCloses' = P.bad

\* createPipes(): n of the six pipe2() calls succeed; when one fails the
\* controller's close() closes what was created.
CreatePipes(n) ==
    /\ ctl = "new"
    /\ LET P == makePipes(Parent, 0, n)
       IN  IF n = 6 THEN ParentBecomes(P) /\ ctl' = "created"
           ELSE ParentBecomes(pipesClose(P, 0)) /\ ctl' = "failed"
    /\ UNCHANGED <<cfds, ctable, cpc, inPipe, cin, inCalls, fdOps>>
    /\ FdFrame

\* fork(): the child gets a copy of the descriptor table and of the object.
Fork(forked) ==
    /\ ctl = "created"
    /\ IF forked
       THEN /\ ctl' = "forked" /\ cpc' = "forked"
            /\ ctable' = ptable /\ cfds' = pfds
       ELSE /\ ctl' = "forkfail"
            /\ UNCHANGED <<cpc, ctable, cfds>>
    /\ UNCHANGED <<pfds, ptable, inPipe, cin, inCalls, pcloses, badCloses,
                   fdOps>>
    /\ FdFrame

\* The child: setupChild(), then exec of the program (or _exit(1)).
SetupChild ==
    /\ cpc = "forked"
    /\ LET r == setupChild(ctable, cfds)
       IN  IF r.ok THEN cpc' = "program" /\ ctable' = r.table
           ELSE cpc' = "exited"
                /\ ctable' = [f \in FdNums |-> Closed]
    /\ UNCHANGED <<ctl, pfds, ptable, cfds, inPipe, cin, inCalls, pcloses,
                   badCloses, fdOps>>
    /\ FdFrame

\* The parent: setupParent().
SetupParent ==
    /\ ctl = "forked"
    /\ ParentBecomes(parentCloses(Parent, SetupParentEntries))
    /\ ctl' = "parent"
    /\ UNCHANGED <<cfds, ctable, cpc, inPipe, cin, inCalls, fdOps>>
    /\ FdFrame

\* The result of write(pipes.fds[1], data, k): -1 for a descriptor that is
\* not open for writing (EBADF) or whose pipe has no read end left (EPIPE),
\* otherwise the bytes that fit.
writeStdinResult(k) ==
    LET f == pfds[1]
    IN  IF f \notin FdNums \/ ~IsWriteEnd(ptable[f]) THEN -1
        ELSE IF ~EndpointOpen(ptable, ctable, ptable[f] - 1) THEN -1
        ELSE Min(k, InPipeCap - inPipe)

\* writeStdin(data, k); a write to a full pipe blocks.
WriteStdin(k) ==
    /\ ctl = "parent" /\ fdOps > 0
    /\ LET ret == writeStdinResult(k)
       IN  /\ ret # 0
           /\ inPipe' = IF ret > 0 THEN inPipe + ret ELSE inPipe
           /\ inCalls' = Append(inCalls, <<"write", ret>>)
    /\ fdOps' = fdOps - 1
    /\ UNCHANGED <<ctl, pfds, ptable, cfds, ctable, cpc, cin, pcloses,
                   badCloses>>
    /\ FdFrame

\* Mutant of CloseStdin: the call closes nothing.
CloseStdin_closesNothing ==
    /\ ctl = "parent" /\ fdOps > 0
    /\ inCalls' = Append(inCalls, <<"close", 0>>)
    /\ fdOps' = fdOps - 1
    /\ UNCHANGED <<ctl, pfds, ptable, cfds, ctable, cpc, inPipe, cin,
                   pcloses, badCloses>>
    /\ FdFrame

\* closeStdin().
CloseStdin ==
    /\ ctl = "parent" /\ fdOps > 0
    /\ ParentBecomes(closeEntry(Parent, 1))
    /\ inCalls' = Append(inCalls, <<"close", 0>>)
    /\ fdOps' = fdOps - 1
    /\ UNCHANGED <<ctl, cfds, ctable, cpc, inPipe, cin>>
    /\ FdFrame

\* StreamController::close(): stopDraining(), then pipes.close().
Close ==
    /\ ctl = "parent" /\ fdOps > 0
    /\ ParentBecomes(pipesClose(Parent, 0))
    /\ fdOps' = fdOps - 1
    /\ UNCHANGED <<ctl, cfds, ctable, cpc, inPipe, cin, inCalls>>
    /\ FdFrame

\* ~StreamController(): stopDraining(); close().
Destroy ==
    /\ ctl \in {"failed", "forkfail", "parent"}
    /\ ParentBecomes(pipesClose(Parent, 0))
    /\ ctl' = "destroyed"
    /\ UNCHANGED <<cfds, ctable, cpc, inPipe, cin, inCalls, fdOps>>
    /\ FdFrame

\* The child's program calls read(0, ...): EBADF when descriptor 0 is not
\* open for reading, a byte when the pipe holds one, end-of-file when it is
\* empty and no write end is open anywhere; otherwise the read blocks.
ChildReadIn ==
    /\ cpc = "program"
    /\ IF ~IsReadEnd(ctable[0])
       THEN cin' = "ebadf" /\ UNCHANGED inPipe
       ELSE IF inPipe > 0
       THEN cin' = "data" /\ inPipe' = inPipe - 1
       ELSE /\ ~EndpointOpen(ptable, ctable, ctable[0] + 1)
            /\ cin' = "eof" /\ UNCHANGED inPipe
    /\ UNCHANGED <<ctl, pfds, ptable, cfds, ctable, cpc, inCalls, pcloses,
                   badCloses, fdOps>>
    /\ FdFrame

\* The child's program ends once its read of the control input has ended,
\* with end-of-file or with an error; its descriptors are closed.
ChildLeaves ==
    /\ cpc = "program" /\ cin \in {"eof", "ebadf"}
    /\ cpc' = "exited"
    /\ ctable' = [f \in FdNums |-> Closed]
    /\ UNCHANGED <<ctl, pfds, ptable, cfds, inPipe, cin, inCalls, pcloses,
                   badCloses, fdOps>>
    /\ FdFrame

FDNext ==
    \/ \E n \in 0..6 : CreatePipes(n)
    \/ \E forked \in BOOLEAN : Fork(forked)
    \/ SetupChild
    \/ SetupParent
    \/ \E k \in 1..InPipeCap : WriteStdin(k)
    \/ CloseStdin
    \/ Close
    \/ Destroy
    \/ ChildReadIn
    \/ ChildLeaves

SpecFd == FDInit /\ [][FDNext]_vars

\* The child is scheduled fairly; nothing obliges the parent to act.
FairFd == SpecFd /\ WF_vars(SetupChild) /\ WF_vars(ChildReadIn)

(***************************************************************************)
(* Specification SpecLock: the shell's main thread, the signal handlers    *)
(* that main.cpp installs on it, and JobManager::jobsMutex                 *)
(***************************************************************************)
\* A stack frame: the function, its position, whether it runs inside a
\* signal handler (and for which signal), the new state a notification
\* carries, and whether jobsMutex was locked when the frame was entered.
Frame(fn, async, sig, new) ==
    [fn |-> fn, pc |-> "enter", async |-> async, sig |-> sig, new |-> new,
     heldAtEntry |-> held]

Top == stack[Len(stack)]

Running == fate = "running" /\ stack # <<>>

\* The top frame moves to pc, and optionally calls callee.
Goto(pc) == [stack EXCEPT ![Len(stack)].pc = pc]

Call(pc, fn, new) == Append(Goto(pc), Frame(fn, Top.async, Top.sig, new))

Pop == SubSeq(stack, 1, Len(stack) - 1)

LkFrame == UNCHANGED <<smVars, rbVars, jmVars, drVars, fdVars, lkPlatform,
                       hmVars>>

LKInit ==
    /\ SMIdle /\ RBIdle /\ JMIdle /\ DRIdle /\ FDIdle /\ HMIdle
    /\ lkPlatform \in {"linux", "posix"}
    /\ stack = <<>> /\ held = FALSE /\ fate = "running"
    /\ lkCalls = MaxLkCalls /\ lkSigs = MaxLkSigs

\* std::lock_guard<std::mutex> lock(jobsMutex) by the top frame, which then
\* continues at pc. Locking a std::mutex the thread already owns is
\* undefined: the thread blocks forever, or lock() fails and the exception
\* terminates the program.
Acquire(pc) ==
    IF held
    THEN /\ fate' \in {"deadlock", "terminated"}
         /\ UNCHANGED <<stack, held>>
    ELSE /\ held' = TRUE /\ stack' = Goto(pc) /\ UNCHANGED fate

\* The REPL (main.cpp) calls into the JobManager.
LkCall(fn) ==
    /\ fate = "running" /\ stack = <<>> /\ lkCalls > 0
    /\ stack' = <<Frame(fn, FALSE, "none", "NONE")>>
    /\ lkCalls' = lkCalls - 1
    /\ UNCHANGED <<held, fate, lkSigs>>
    /\ LkFrame

\* The function each installed handler calls.
HandlerCalls(sig) ==
    CASE sig = "SIGINT" -> "handleCtrlC"
      [] sig = "SIGTSTP" -> "handleCtrlZ"
      [] sig = "SIGCHLD" -> "processEvents"

\* A signal is delivered to the main thread, wherever it is: its handler
\* runs on top of the interrupted frame. A signal is blocked while its own
\* handler runs (sa_mask is empty, no SA_NODEFER); the others are not.
LkSignal(sig) ==
    /\ fate = "running" /\ lkSigs > 0
    /\ \A i \in 1..Len(stack) : stack[i].sig # sig
    /\ stack' = Append(stack, Frame(HandlerCalls(sig), TRUE, sig, "NONE"))
    /\ lkSigs' = lkSigs - 1
    /\ UNCHANGED <<held, fate, lkCalls>>
    /\ LkFrame

\* JobManager::spawn: the lock is held from entry to return.
LkSpawn ==
    /\ Running /\ Top.fn = "spawn"
    /\ IF Top.pc = "enter" THEN Acquire("body")
       ELSE held' = FALSE /\ stack' = Pop /\ UNCHANGED fate
    /\ UNCHANGED <<lkCalls, lkSigs>>
    /\ LkFrame

\* JobManager::getJob and getForegroundJob: lock, look up, unlock.
LkGetJob ==
    /\ Running /\ Top.fn \in {"getJob", "getForegroundJob"}
    /\ IF Top.pc = "enter" THEN Acquire("locked")
       ELSE held' = FALSE /\ stack' = Pop /\ UNCHANGED fate
    /\ UNCHANGED <<lkCalls, lkSigs>>
    /\ LkFrame

\* JobManager::foreground: getJob, then either an early return or the
\* exchange and notifyStatusChange(.., FOREGROUND).
LkForeground ==
    /\ Running /\ Top.fn = "foreground"
    /\ \/ Top.pc = "enter" /\ stack' = Call("checked", "getJob", "NONE")
       \/ Top.pc = "checked" /\ stack' = Pop
       \/ Top.pc = "checked"
          /\ stack' = Call("notified", "callback", "FOREGROUND")
       \/ Top.pc = "notified" /\ stack' = Pop
    /\ UNCHANGED <<held, fate, lkCalls, lkSigs>>
    /\ LkFrame

\* JobManager::handleCtrlZ: getForegroundJob, then nothing or the exchange
\* and notifyStatusChange(.., STOPPED).
LkHandleCtrlZ ==
    /\ Running /\ Top.fn = "handleCtrlZ"
    /\ \/ Top.pc = "enter"
          /\ stack' = Call("checked", "getForegroundJob", "NONE")
       \/ Top.pc = "checked" /\ stack' = Pop
       \/ Top.pc = "checked"
          /\ stack' = Call("notified", "callback", "STOPPED")
       \/ Top.pc = "notified" /\ stack' = Pop
    /\ UNCHANGED <<held, fate, lkCalls, lkSigs>>
    /\ LkFrame

\* JobManager::handleCtrlC: getForegroundJob, kill.
LkHandleCtrlC ==
    /\ Running /\ Top.fn = "handleCtrlC"
    /\ \/ Top.pc = "enter"
          /\ stack' = Call("checked", "getForegroundJob", "NONE")
       \/ Top.pc = "checked" /\ stack' = Pop
    /\ UNCHANGED <<held, fate, lkCalls, lkSigs>>
    /\ LkFrame

\* JobManager::processEvents. With epoll: for an event, getJob, then
\* reapJob with its notifyStatusChange(.., TERMINATED). Fallback: the lock
\* is taken at entry and held over the whole scan, the notifications of
\* the jobs that exited or stopped included.
LkProcessEvents ==
    /\ Running /\ Top.fn = "processEvents"
    /\ IF lkPlatform = "linux"
       THEN /\ \/ Top.pc = "enter" /\ stack' = Pop
               \/ Top.pc = "enter" /\ stack' = Call("reap", "getJob", "NONE")
               \/ Top.pc = "reap"
                  /\ stack' = Call("notified", "callback", "TERMINATED")
               \/ Top.pc = "notified" /\ stack' = Pop
            /\ UNCHANGED <<held, fate>>
       ELSE \/ Top.pc = "enter" /\ Acquire("scan")
            \/ /\ Top.pc = "scan"
               /\ \E new \in {"TERMINATED", "STOPPED"} :
                      stack' = Call("scanned", "callback", new)
               /\ UNCHANGED <<held, fate>>
            \/ /\ Top.pc \in {"scan", "scanned"}
               /\ held' = FALSE /\ stack' = Pop /\ UNCHANGED fate
    /\ UNCHANGED <<lkCalls, lkSigs>>
    /\ LkFrame

\* The observer main.cpp registers: for a job that became TERMINATED or
\* STOPPED from another state it calls getJob and prints to std::cout;
\* for any other notification (a repeated one included) it returns.
LkCallback ==
    /\ Running /\ Top.fn = "callback"
    /\ \/ /\ Top.pc = "enter" /\ Top.new \in {"TERMINATED", "STOPPED"}
          /\ stack' = Call("print", "getJob", "NONE")
       \/ Top.pc = "enter" /\ stack' = Pop
       \/ Top.pc = "print" /\ stack' = Pop
    /\ UNCHANGED <<held, fate, lkCalls, lkSigs>>
    /\ LkFrame

\* JobManager::terminate: getJob, then sendSignal.
LkTerminate ==
    /\ Running /\ Top.fn = "terminate"
    /\ \/ Top.pc = "enter" /\ stack' = Call("send", "getJob", "NONE")
       \/ Top.pc = "send" /\ stack' = Pop
    /\ UNCHANGED <<held, fate, lkCalls, lkSigs>>
    /\ LkFrame

\* JobManager::shutdown: the lock is taken at entry and held to the end;
\* the loop calls terminate(id, true) for every job that is not
\* TERMINATED, then the table is cleared and the lock released.
LkShutdown ==
    /\ Running /\ Top.fn = "shutdown"
    /\ \/ Top.pc = "enter" /\ Acquire("loop")
       \/ /\ Top.pc = "loop"
          /\ stack' = Call("loop", "terminate", "NONE")
          /\ UNCHANGED <<held, fate>>
       \/ /\ Top.pc = "loop"
          /\ held' = FALSE /\ stack' = Pop /\ UNCHANGED fate
    /\ UNCHANGED <<lkCalls, lkSigs>>
    /\ LkFrame

LKNext ==
    \/ \E fn \in {"spawn", "foreground", "processEvents", "terminate",
                 "shutdown"} : LkCall(fn)
    \/ \E sig \in {"SIGINT", "SIGTSTP", "SIGCHLD"} : LkSignal(sig)
    \/ LkSpawn
    \/ LkGetJob
    \/ LkForeground
    \/ LkHandleCtrlZ
    \/ LkHandleCtrlC
    \/ LkProcessEvents
    \/ LkCallback
    \/ LkTerminate
    \/ LkShutdown

SpecLock == LKInit /\ [][LKNext]_vars

(***************************************************************************)
(* The handle map of the Windows bootstrap: the parent serializes the      *)
(* handles of channels 3..5 into a string, passes it in the environment or *)
(* on the command line, and the child parses and validates it              *)
(***************************************************************************)
HexUpper == <<"0", "1", "2", "3", "4", "5", "6", "7", "8", "9",
              "A", "B", "C", "D", "E", "F">>

HexLower == <<"0", "1", "2", "3", "4", "5", "6", "7", "8", "9",
              "a", "b", "c", "d", "e", "f">>

IsHex(c) == \E i \in 1..16 : HexUpper[i] = c \/ HexLower[i] = c

IsDec(c) == \E i \in 1..10 : HexUpper[i] = c

DigitVal(c) == (CHOOSE i \in 1..16 : HexUpper[i] = c \/ HexLower[i] = c) - 1

\* operator<< of a uintptr_t under std::hex and std::uppercase.
RECURSIVE ToHex(_)
ToHex(n) ==
    IF n < 16 THEN <<HexUpper[n + 1]>>
    ELSE ToHex(n \div 16) \o <<HexUpper[(n % 16) + 1]>>

\* One "<idx>:0x<hex>" item of serialize.
Item(idx, h) == <<idx, ":", "0", "x">> \o ToHex(h)

\* Mutant of serialize: the items are not separated.
serialize_noSeparator(m) ==
    LET has(i) == m[i] # INVALID_HANDLE_VALUE
    IN  (IF has(3) THEN Item("3", m[3]) ELSE <<>>)
        \o (IF has(4) THEN Item("4", m[4]) ELSE <<>>)
        \o (IF has(5) THEN Item("5", m[5]) ELSE <<>>)

\* WindowsHandleMap::serialize: the streams 3, 4 and 5 that are not
\* INVALID_HANDLE_VALUE, separated by ";".
serialize(m) ==
    LET has(i)  == m[i] # INVALID_HANDLE_VALUE
        sep(b)  == IF b THEN <<";">> ELSE <<>>
        s3 == IF has(3) THEN Item("3", m[3]) ELSE <<>>
        s4 == IF has(4) THEN sep(has(3)) \o Item("4", m[4]) ELSE <<>>
        s5 == IF has(5) THEN sep(has(3) \/ has(4)) \o Item("5", m[5])
                        ELSE <<>>
    IN  s3 \o s4 \o s5

\* std::wstring::find(c): the first position of c in s, 0 for npos.
Find(s, c) ==
    IF \E i \in 1..Len(s) : s[i] = c
    THEN CHOOSE i \in 1..Len(s) : s[i] = c /\ \A k \in 1..(i - 1) : s[k] # c
    ELSE 0

\* The tokens std::getline(stream, pair, ';') yields until it fails.
RECURSIVE GetLines(_)
GetLines(s) ==
    IF s = <<>> THEN <<>>
    ELSE LET p == Find(s, ";")
         IN  IF p = 0 THEN <<s>>
             ELSE <<SubSeq(s, 1, p - 1)>> \o GetLines(SubSeq(s, p + 1, Len(s)))

\* Leading white space is skipped by _wtoi and wcstoull.
RECURSIVE SkipWs(_)
SkipWs(s) == IF s # <<>> /\ Head(s) = " " THEN SkipWs(Tail(s)) ELSE s

Signed(s) == s # <<>> /\ Head(s) \in {"+", "-"}

Negative(s) == s # <<>> /\ Head(s) = "-"

\* The value of the longest prefix of s made of digits of the base, each
\* step saturating at top.
RECURSIVE Digits(_, _, _, _)
Digits(s, base, acc, top) ==
    IF s = <<>> \/ ~IsHex(Head(s)) \/ DigitVal(Head(s)) >= base THEN acc
    ELSE LET d == DigitVal(Head(s))
         IN  Digits(Tail(s), base,
                    IF acc > (top - d) \div base THEN top ELSE acc * base + d,
                    top)

\* The value _wtoi returns on overflow.
INT_MAX == 2147483647

\* _wtoi: optional white space, optional sign, decimal digits; 0 when there
\* are none.
wtoi(s) ==
    LET t == SkipWs(s)
        u == IF Signed(t) THEN Tail(t) ELSE t
        v == Digits(u, 10, 0, INT_MAX)
    IN  IF Negative(t) THEN 0 - v ELSE v

\* wcstoull(s, &endPtr, 16) converted to uintptr_t: optional white space,
\* optional sign, optional 0x or 0X before a hex digit, hex digits; 0 when
\* there are none, the largest value on overflow, negated in the unsigned
\* type after a minus sign.
wcstoull(s) ==
    LET t == SkipWs(s)
        u == IF Signed(t) THEN Tail(t) ELSE t
        prefixed == /\ Len(u) >= 3 /\ u[1] = "0" /\ u[2] \in {"x", "X"}
                    /\ IsHex(u[3])
        d == IF prefixed THEN SubSeq(u, 3, Len(u)) ELSE u
        v == Digits(d, 16, 0, INVALID_HANDLE_VALUE)
    IN  IF Negative(t) /\ v < INVALID_HANDLE_VALUE
        THEN (2^PtrBits - v) % 2^PtrBits
        ELSE v

\* The body of parse's loop for one token.
parsePair(m, pair) ==
    LET colonPos == Find(pair, ":")
        index    == wtoi(SubSeq(pair, 1, colonPos - 1))
        handle   == wcstoull(SubSeq(pair, colonPos + 1, Len(pair)))
    IN  IF colonPos = 0 THEN m
        ELSE IF index \in 0..5 THEN [m EXCEPT ![index] = handle]
        ELSE m

RECURSIVE parsePairs(_, _)
parsePairs(m, pairs) ==
    IF pairs = <<>> THEN m
    ELSE parsePairs(parsePair(m, Head(pairs)), Tail(pairs))

\* WindowsHandleMap::parse on the map m: the return value and the map.
parse(m, mapString) ==
    IF mapString = <<>> THEN [ret |-> FALSE, map |-> m]
    ELSE [ret |-> TRUE, map |-> parsePairs(m, GetLines(mapString))]

\* WindowsHandleMap::validateHandles: GetHandleInformation succeeds on each
\* of the streams 3..5 that is not INVALID_HANDLE_VALUE.
validateHandles(m) ==
    \A i \in 3..5 : m[i] # INVALID_HANDLE_VALUE => m[i] \in hmLive

\* parseFromEnvironment: GetEnvironmentVariableW returns 0 for a variable
\* that is not there or is empty; the values here fit its buffer.
parseFromEnvironment ==
    IF hmEnv.set /\ Len(hmEnv.val) > 0 THEN parse(EmptyMap, hmEnv.val).map
    ELSE EmptyMap

\* parseFromCommandLine: the value of the flag runs to the next space.
parseFromCommandLine ==
    LET sp    == Find(hmCmd.val, " ")
        value == IF sp = 0 THEN hmCmd.val ELSE SubSeq(hmCmd.val, 1, sp - 1)
    IN  IF hmCmd.set THEN parse(EmptyMap, value).map ELSE EmptyMap

\* retrieveHandleMap(envVarFirst): the first source's map if it validates,
\* else the second source's map if it validates, else an empty map.
retrieveHandleMap(envVarFirst) ==
    LET first  == IF envVarFirst THEN parseFromEnvironment
                                 ELSE parseFromCommandLine
        second == IF envVarFirst THEN parseFromCommandLine
                                 ELSE parseFromEnvironment
    IN  [called |-> TRUE, envVarFirst |-> envVarFirst, first |-> first,
         fellBack |-> ~validateHandles(first),
         second |-> IF validateHandles(first) THEN EmptyMap ELSE second,
         result |-> IF validateHandles(first) THEN first
                    ELSE IF validateHandles(second) THEN second
                    ELSE EmptyMap]

Handles == 0..MaxHandle

\* The map strings a foreign launcher may pass: up to MaxPairs of these
\* items joined by ";". Some are well formed, some are not, some name a
\* stream outside 3..5.
PairPool ==
    { <<"3", ":", "0", "x", "1">>, <<"4", ":", "a">>,
      <<"5", ":", "0", "X", "A">>, <<"3", "4">>, <<"4", ":", "z">>,
      <<"x", ":", "1">>, <<"1", ":", "1">>, <<"7", ":", "1">>,
      <<"3", ":">>, <<>> }

RECURSIVE Join(_)
Join(pairs) ==
    IF pairs = <<>> THEN <<>>
    ELSE IF Len(pairs) = 1 THEN pairs[1]
    ELSE pairs[1] \o <<";">> \o Join(Tail(pairs))

ForeignStrings ==
    { Join(ps) : ps \in UNION { [1..n -> PairPool] : n \in 1..MaxPairs } }

ForeignHandles == {0, 1, 10}

HMFrame == UNCHANGED <<smVars, rbVars, jmVars, drVars, fdVars, lkVars>>

HMInit ==
    /\ SMIdle /\ RBIdle /\ JMIdle /\ DRIdle /\ FDIdle /\ LKIdle
    /\ \E f \in [3..5 -> Handles \cup {INVALID_HANDLE_VALUE}] :
          hmParent = [i \in 0..5 |-> IF i < 3 THEN INVALID_HANDLE_VALUE
                                              ELSE f[i]]
    /\ hmEnv = Absent /\ hmCmd = Absent
    /\ hmLive = {} /\ hmHow = "none" /\ hmRet = NoRetrieve

\* The handle values the parent puts into the map.
ParentHandles == { hmParent[i] : i \in 3..5 } \ {INVALID_HANDLE_VALUE}

\* WindowsBootstrap::launchProcess(commandLine, useEnvVar): the map string
\* goes into the child's environment or onto its command line. Which of
\* the parent's handles are open in the child is up to the kernel.
LaunchProcess(useEnvVar) ==
    /\ hmHow = "none"
    /\ hmHow' = IF useEnvVar THEN "env" ELSE "flag"
    /\ hmEnv' = IF useEnvVar THEN [set |-> TRUE, val |-> serialize(hmParent)]
                             ELSE Absent
    /\ hmCmd' = IF useEnvVar THEN Absent
                             ELSE [set |-> TRUE, val |-> serialize(hmParent)]
    /\ hmLive' \in SUBSET ParentHandles
    /\ UNCHANGED <<hmParent, hmRet>>
    /\ HMFrame

\* Something other than WindowsBootstrap starts the child, with a map
\* string of its own in one of the two places.
ForeignLaunch(inEnv) ==
    /\ hmHow = "none" /\ hmParent = EmptyMap
    /\ hmHow' = "foreign"
    /\ \E str \in ForeignStrings :
          /\ hmEnv' = IF inEnv THEN [set |-> TRUE, val |-> str] ELSE Absent
          /\ hmCmd' = IF inEnv THEN Absent ELSE [set |-> TRUE, val |-> str]
    /\ hmLive' \in SUBSET ForeignHandles
    /\ UNCHANGED <<hmParent, hmRet>>
    /\ HMFrame

\* The child calls WindowsHandleMapConsumer::retrieveHandleMap.
Retrieve(envVarFirst) ==
    /\ hmHow # "none" /\ ~hmRet.called
    /\ hmRet' = retrieveHandleMap(envVarFirst)
    /\ UNCHANGED <<hmParent, hmEnv, hmCmd, hmLive, hmHow>>
    /\ HMFrame

HMNext ==
    \/ \E e \in BOOLEAN : LaunchProcess(e)
    \/ \E e \in BOOLEAN : ForeignLaunch(e)
    \/ \E f \in BOOLEAN : Retrieve(f)

SpecHandleMap == HMInit /\ [][HMNext]_vars

(***************************************************************************)
(* Properties of StateMachine::transition                                  *)
(***************************************************************************)
\* The events that head the columns of the transition table of section 4.G.
TableEvents == JobEvent \ {"TIMEOUT"}

\* The table of section 4.G as a set of <<from, event, to>> entries; a pair
\* that is absent is a dash.
Table ==
    { <<"NONE", "SPAWN", "FOREGROUND">>, <<"NONE", "SPAWN_BG", "BACKGROUND">>,
      <<"FOREGROUND", "CTRL_C", "TERMINATED">>,
      <<"FOREGROUND", "CTRL_Z", "STOPPED">>,
      <<"FOREGROUND", "CHILD_EXIT", "TERMINATED">>,
      <<"FOREGROUND", "CHILD_STOP", "STOPPED">>,
      <<"FOREGROUND", "ERROR", "TERMINATED">>,
      <<"BACKGROUND", "FG_CMD", "FOREGROUND">>,
      <<"BACKGROUND", "BG_CMD", "BACKGROUND">>,
      <<"BACKGROUND", "CHILD_EXIT", "TERMINATED">>,
      <<"BACKGROUND", "CHILD_STOP", "STOPPED">>,
      <<"BACKGROUND", "TTY_READ", "STOPPED">>,
      <<"BACKGROUND", "ERROR", "TERMINATED">>,
      <<"STOPPED", "CTRL_C", "TERMINATED">>,
      <<"STOPPED", "FG_CMD", "FOREGROUND">>,
      <<"STOPPED", "BG_CMD", "BACKGROUND">>,
      <<"STOPPED", "CHILD_EXIT", "TERMINATED">>,
      <<"STOPPED", "ERROR", "TERMINATED">> }

TableEntries(s, e) == {t \in Table : t[1] = s /\ t[2] = e}

\* C1: for every state and every event of the table, the result of
\* transition(state, event) is the table's entry: valid with the listed new
\* state where the table names one, invalid where it shows a dash.
C1_TransitionMatchesTable ==
    (smRes # NoResult /\ smEv \in TableEvents) =>
        IF TableEntries(smCur, smEv) = {}
        THEN ~smRes.valid
        ELSE /\ smRes.valid
             /\ TableEntries(smCur, smEv) = {<<smCur, smEv, smRes.newState>>}

\* C1 witness: a dash of the table has been evaluated (CHILD_STOP on a
\* STOPPED job) and reported invalid.
C1_Witness ==
    smCur = "STOPPED" /\ smEv = "CHILD_STOP" /\ smRes = fail

(***************************************************************************)
(* Properties of RingBuffer                                                *)
(***************************************************************************)
IsPrefix(s, t) == Len(s) <= Len(t) /\ SubSeq(t, 1, Len(s)) = s

Quiescent == prod.pc = "idle" /\ cons.pc = "idle"

\* The bytes accepted by write() and not yet handed out by a completed read().
Held == SubSeq(acceptedLog, Len(readLog) + 1, Len(acceptedLog))

\* C9: the ring is a FIFO byte queue. (a) The bytes read so far are a prefix
\* of the bytes accepted so far, in the order accepted, and between
\* operations the rest is exactly what the ring still holds; (b) in every
\* state between operations, writing data and then reading everything
\* yields the earlier content followed by the prefix of data whose length is
\* write's return value, and leaves available = 0; (c) once everything
\* accepted has been read, available = 0.
C9_RingFifo ==
    /\ IsPrefix(readLog, acceptedLog)
    /\ (cons.pc = "store") => IsPrefix(readLog \o cons.out, acceptedLog)
    /\ Quiescent =>
         /\ RingRead(ThisRing, capacity).data = Held
         /\ (readLog = acceptedLog) =>
                available(writePos, readPos, capacity) = 0
         /\ \A len \in 0..MaxWriteLen :
              LET data == Fresh(len)
                  w    == RingWrite(ThisRing, data)
                  r    == RingRead(w.rb, capacity)
              IN  /\ w.n \in 0..len
                  /\ r.data = Held \o SubSeq(data, 1, w.n)
                  /\ available(r.rb.writePos, r.rb.readPos, capacity) = 0

\* C9 witness: a read has completed that crossed the end of the storage
\* (wrap-around) and returned bytes accepted by an earlier write.
C9_Witness ==
    /\ Quiescent /\ Len(lastRead) >= 2
    /\ readPos < Len(lastRead)
    /\ readPos > 0
    /\ readLog = acceptedLog

\* C10: at every point of every interleaving of the producer's write and
\* the consumer's read, available = (writePos - readPos) mod capacity and
\* is the number of accepted-but-unread bytes, which is at most
\* capacity - 1; full is reported iff that number is capacity - 1; and the
\* unread bytes are still in the storage, in order (never overwritten).
C10_RingOccupancy ==
    LET avail == available(writePos, readPos, capacity)
    IN  /\ avail = (writePos - readPos) % capacity
        /\ avail = Len(Held)
        /\ Len(Held) <= capacity - 1
        /\ full(writePos, readPos, capacity) <=> (avail = capacity - 1)
        /\ copyOut(buffer, readPos, avail, capacity) = Held

\* C10 witness: the producer is inside write() copying into a ring that the
\* consumer is concurrently reading, with unread bytes pending and the ring
\* wrapped.
C10_Witness ==
    /\ prod.pc = "store" /\ cons.pc = "store"
    /\ writePos < readPos
    /\ capacity >= 3

(***************************************************************************)
(* Properties of JobManager                                                *)
(***************************************************************************)
\* C2: Terminated is absorbing: a job whose state is TERMINATED never gets
\* another state, whatever the JobManager operations and however
\* processEvents interleaves with them.
C2_TerminatedAbsorbing ==
    [][\A j \in JobIds :
          jstate[j] = "TERMINATED" => jstate'[j] = "TERMINATED"]_vars

\* The event a job-control call submits to the state machine.
EventOf(op) == IF op = "foreground" THEN "FG_CMD" ELSE "BG_CMD"

\* C3: a job-control call (foreground, background) whose event the table of
\* section 4.G marks invalid for the job's current state returns false and
\* changes nothing: the job states, the terminal's owner and modes, the
\* saved modes, the processes (no signal sent) and the notifications stay
\* as they were, and the call is over.
C3_InvalidOpChangesNothing ==
    [][\A j \in JobIds :
          ( /\ mainPc = IdleCall /\ opsLeft' < opsLeft
            /\ lastCall'.op \in {"foreground", "background"}
            /\ lastCall'.job = j
            /\ TableEntries(jstate[j], EventOf(lastCall'.op)) = {} )
          => ( /\ lastCall'.ret = RetFalse
               /\ mainPc' = IdleCall
               /\ UNCHANGED <<jobs, jstate, jmodes, exitCode, fgMode, child,
                              ttyOwner, termModes, sigLog, notes>> )]_vars

\* C3 witness: foreground() has just been refused on a job of the table
\* that is TERMINATED.
C3_Witness ==
    \E j \in jobs :
        /\ jstate[j] = "TERMINATED"
        /\ lastCall = Returned("foreground", j, RetFalse)
        /\ mainPc = IdleCall

\* Number of notifications for job j whose new state is TERMINATED.
TerminatedNotes(j) ==
    Cardinality({i \in 1..Len(notes) :
                    notes[i][1] = j /\ notes[i][3] = "TERMINATED"})

\* C4: for a job whose child has ended, the observer gets exactly one
\* notification with new state TERMINATED: never a second one, and one has
\* been delivered by the time the manager has reaped the child.
C4_ExactlyOneTerminated ==
    \A j \in JobIds :
        /\ TerminatedNotes(j) <= 1
        /\ child[j].st = "reaped" => TerminatedNotes(j) = 1

(***************************************************************************)
(* Properties of the drained output channel                                *)
(***************************************************************************)
\* The child has completed and the channel's drainer has left its loop.
ChannelClosed == ~writerOpen /\ drainer.pc = "done"

\* C5: no loss on the blocking channels 1, 2 and 5. Once the child has
\* completed and the drainer has finished, the bytes the consumer has read
\* plus the bytes still pending in the channel's ring are exactly the bytes
\* the child wrote, whatever the amount and the schedule of consumer reads.
C5_NoLossOnBlockingChannels ==
    (chan \in {1, 2, 5} /\ ChannelClosed) =>
        Len(readLog) + available(writePos, readPos, capacity) = produced

\* C6: no deadlock against the core. Whatever the amount the child writes
\* on its output channel, a wait() on the child returns: the child is always
\* eventually able to finish writing.
C6_WaitReturns == (appPc = "wait") ~> (appPc = "free")

\* C7: telemetry never blocks the producer. The drainer of channel 3, and
\* only that one, has the drop policy; it never enters the retry loop that
\* waits for ring space; and a child writing to channel 3 eventually
\* completes its writes and exits even if the consumer never reads.
C7_TelemetryNeverBlocks ==
    /\ [](drainer.pc # "none" => (drainer.drop <=> chan = 3))
    /\ [](chan = 3 => drainer.pc # "retry")
    /\ (chan = 3) ~> (~writerOpen)

\* The child of channel 3 wrote more than the ring can hold and has exited,
\* bytes were discarded, and the consumer has read nothing.
C7_Witness ==
    /\ chan = 3 /\ ~writerOpen /\ readLog = <<>>
    /\ produced = MaxChildBytes
    /\ bytesTransferred > Len(acceptedLog)
    /\ drainer.pc = "done"

\* C8: on channel 3 the bytes observed by the consumer never exceed the
\* bytes produced, and the observable drop counter equals the number of
\* bytes discarded on overflow: the bytes the drainer took from the pipe
\* that the ring did not accept.
C8_DropCounterExact ==
    chan = 3 =>
        /\ Len(readLog) <= produced
        /\ dropCounter = bytesTransferred - Len(acceptedLog)

InputClosed == \E i \in 1..Len(inCalls) : inCalls[i][1] = "close"

\* C12: after close_input has closed the parent's end of channel 0, the
\* child's program reading channel 0 eventually observes end-of-file.
C12_EofAfterCloseInput == (cpc = "program" /\ InputClosed) ~> (cin = "eof")

\* C13: a writeStdin() made after closeStdin() returns an error and puts no
\* byte into the pipe.
C13_WriteAfterCloseFails ==
    [][(/\ InputClosed
        /\ Len(inCalls') > Len(inCalls)
        /\ inCalls'[Len(inCalls')][1] = "write")
       => (inCalls'[Len(inCalls')][2] = -1 /\ inPipe' = inPipe)]_vars

\* C13 witness: a writeStdin() was made after a closeStdin() that found the
\* parent's write end open, while the child's program was running.
C13_Witness ==
    /\ cpc = "program" /\ pcloses[1] = 1
    /\ \E i, j \in 1..Len(inCalls) :
           i < j /\ inCalls[i][1] = "close" /\ inCalls[j][1] = "write"

\* C14: in the child's program, descriptors 0 and 4 are the read ends of
\* the pipes of channels 0 and 4 and descriptors 1, 2, 3 and 5 the write
\* ends of theirs.
C14_ChildDirections ==
    cpc = "program" => \A k \in 0..5 : ctable[k] = ChildSide(k)

\* C15: at entry to the child's program the only endpoints the child holds
\* are child-side ends, on descriptors 0..5, and every descriptor the
\* endpoints were created on is closed.
C15_NoParentSideInChild ==
    cpc = "program" =>
        /\ \A f \in FdNums :
               ctable[f] \in Endpoints =>
                   f \in 0..5 /\ \E k \in 0..5 : ctable[f] = ChildSide(k)
        /\ \A i \in Endpoints :
               cfds[i] > 5 => ctable[cfds[i]] = Closed

JobNotes(j) == SelectSeq(notes, LAMBDA n : n[1] = j)

\* C17: the transitions of one job are observed in causal order: in the
\* notifications for a job, the old state of each is the new state of the
\* one before, also when foreground, background or handleCtrlZ run
\* concurrently with processEvents.
C17_CausalOrder ==
    \A j \in JobIds :
        \A k \in 1..(Len(JobNotes(j)) - 1) :
            JobNotes(j)[k + 1][2] = JobNotes(j)[k][3]

\* C18: observers are notified exactly once for each state change of a job.
\* No notification is made without a change of state, and every change,
\* the marking made by spawn included, is notified: once no call is under
\* way, a job of the table has a notification that leaves NONE, and the
\* last notification for it carries its current state.
C18_NotifiedOncePerChange ==
    \A j \in JobIds :
        /\ \A k \in 1..Len(JobNotes(j)) :
               JobNotes(j)[k][2] # JobNotes(j)[k][3]
        /\ (j \in jobs /\ mainPc = IdleCall) =>
               /\ JobNotes(j) # <<>>
               /\ JobNotes(j)[1][2] = "NONE"
               /\ JobNotes(j)[Len(JobNotes(j))][3] = jstate[j]

(***************************************************************************)
(* Properties of jobsMutex                                                 *)
(***************************************************************************)
\* C19: no status callback is invoked while jobsMutex is held, so a
\* callback that calls getJob never locks a mutex its own thread holds:
\* outside signal handlers no lock() ends in deadlock or termination.
C19_CallbackOutsideLock ==
    /\ \A i \in 1..Len(stack) :
           stack[i].fn = "callback" => ~stack[i].heldAtEntry
    /\ (\A i \in 1..Len(stack) : ~stack[i].async) => fate = "running"

\* C20: no signal handler takes a lock or does I/O: no frame that runs
\* inside a handler is getJob, getForegroundJob, the lock-taking fallback
\* scan of processEvents, or the printing callback; and a signal delivered
\* while the interrupted code holds jobsMutex does not stop the shell.
C20_HandlersTakeNoLock ==
    /\ \A i \in 1..Len(stack) :
           stack[i].async =>
               /\ stack[i].fn \notin {"getJob", "getForegroundJob", "callback"}
               /\ ~(stack[i].fn = "processEvents" /\ stack[i].pc = "scan")
    /\ (\E i \in 1..Len(stack) : stack[i].async /\ stack[i].heldAtEntry)
           => fate = "running"

(***************************************************************************)
(* Properties of JobManager::shutdown                                      *)
(***************************************************************************)
\* C21: shutdown() always returns, whatever the number of live jobs: while
\* the main thread is inside shutdown() and no signal handler has
\* interrupted it, it is never blocked for ever nor terminated.
C21_ShutdownReturns ==
    (/\ \E i \in 1..Len(stack) : stack[i].fn = "shutdown"
     /\ \A i \in 1..Len(stack) : ~stack[i].async)
        => fate = "running"

(***************************************************************************)
(* Properties of the terminal arbitration                                  *)
(***************************************************************************)
\* The step in which handleCtrlZ, having found a job, acts on it.
CtrlZActs == mainPc.op = "handleCtrlZ" /\ mainPc'.op = "notify"

\* C22: when handleCtrlZ acts on a job that is Foreground, then afterwards
\* SIGTSTP has been sent to the job's group and the job is Stopped, with
\* the notification Foreground -> Stopped to come; and where a terminal
\* exists it belongs to the shell again, the job's saved modes are the
\* modes the terminal had, and the terminal has the shell's modes.
C22_CtrlZStopsForeground ==
    [][(CtrlZActs /\ jstate[mainPc.job] = "FOREGROUND") =>
          LET j == mainPc.job IN
          /\ sigLog' = Append(sigLog, <<j, "SIGTSTP">>)
          /\ jstate'[j] = "STOPPED"
          /\ mainPc'.old = "FOREGROUND" /\ mainPc'.new = "STOPPED"
          /\ hasTty => /\ ttyOwner' = shellPgid
                       /\ jmodes'[j] = [has |-> TRUE, modes |-> termModes]
                       /\ termModes' = shellModes]_vars

\* handleCtrlZ has just stopped a Foreground job that had set the
\* terminal's modes.
C22_Witness ==
    /\ mainPc.op = "notify" /\ mainPc.call = "handleCtrlZ"
    /\ mainPc.old = "FOREGROUND"
    /\ hasTty /\ ttyOwner = shellPgid /\ termModes = shellModes
    /\ jmodes[mainPc.job] = [has |-> TRUE, modes |-> JobModes(mainPc.job)]
    /\ jstate[mainPc.job] = "STOPPED"
    /\ sigLog[Len(sigLog)] = <<mainPc.job, "SIGTSTP">>

\* The step that is a call of handleCtrlZ.
CtrlZCalled ==
    mainPc = IdleCall /\ opsLeft' # opsLeft /\ lastCall'.op = "handleCtrlZ"

\* C23: a call of handleCtrlZ while no job is Foreground sends no signal,
\* changes no job's state or saved modes, leaves the terminal's owner and
\* modes alone, notifies nobody, and has nothing left to do.
C23_CtrlZWithoutForeground ==
    [][(CtrlZCalled /\ ForegroundJobs = {}) =>
          /\ UNCHANGED <<sigLog, child, jobs, jstate, jmodes, exitCode,
                         fgMode, ttyOwner, termModes, notes>>
          /\ mainPc' = IdleCall]_vars

\* handleCtrlZ has returned without a Foreground job while other jobs
\* exist.
C23_Witness ==
    /\ lastCall = Returned("handleCtrlZ", 0, RetFalse)
    /\ jobs # {} /\ ForegroundJobs = {}
    /\ mainPc = IdleCall

\* The step of foreground() on a job it found Stopped in which the terminal
\* passes to the job.
FgGivesTerminal ==
    /\ mainPc.op \in {"foreground", "foregroundModes"}
    /\ mainPc.current = "STOPPED"
    /\ ttyOwner # mainPc.job /\ ttyOwner' = mainPc.job

\* C24: foreground() of a Stopped job sends SIGCONT, restores the job's
\* terminal modes, hands the terminal over, and only then sets the state:
\* when the terminal passes to the job, SIGCONT has been sent and the
\* terminal already has the job's saved modes; and the state is still
\* unchanged after that step.
C24_ForegroundOrder ==
    [][FgGivesTerminal =>
          LET j == mainPc.job IN
          /\ sigLog' # <<>> /\ sigLog'[Len(sigLog')] = <<j, "SIGCONT">>
          /\ jmodes[j].has => termModes' = jmodes[j].modes
          /\ jstate'[j] = jstate[j]]_vars

(***************************************************************************)
(* Properties of processEvents and of the exit code                        *)
(***************************************************************************)
\* The step that is a run of processEvents.
ProcessEventsRuns ==
    opsLeft' # opsLeft /\ (mainPc # IdleCall \/ lastCall'.op = "processEvents")

\* A Background job whose process the kernel has stopped, the stop not yet
\* reported.
StoppedInBackground(j) ==
    /\ j \in jobs /\ jstate[j] = "BACKGROUND"
    /\ child[j].st = "stopped" /\ child[j].stopPending

\* C25: when the kernel has stopped a Background job's process, the next
\* processEvents moves the job Background -> Stopped and notifies the
\* observers of it, and the shell sends no signal.
C25_BackgroundStopObserved ==
    [][ProcessEventsRuns =>
          \A j \in JobIds :
             StoppedInBackground(j) =>
                /\ jstate'[j] = "STOPPED"
                /\ \E i \in (Len(notes) + 1)..Len(notes') :
                       notes'[i] = <<j, "BACKGROUND", "STOPPED">>
                /\ sigLog' = sigLog]_vars

\* C26: the exit code recorded for a job follows the convention: in the
\* step in which the shell reaps the job's process, the job becomes
\* Terminated and its exit code is the program's status after a normal
\* exit and 128 + n after termination by signal n.
C26_ExitCodeConvention ==
    [][\A j \in JobIds :
          (child[j].st \in {"zombie_exit", "zombie_sig"}
             /\ child'[j].st = "reaped") =>
                /\ jstate'[j] = "TERMINATED"
                /\ exitCode'[j] = IF child[j].st = "zombie_exit"
                                  THEN child[j].wstatus
                                  ELSE 128 + child[j].wstatus]_vars

(***************************************************************************)
(* Properties of spawn                                                     *)
(***************************************************************************)
\* C27: when spawn has failed, at the creation of the endpoints or at
\* fork, every endpoint that was created is closed: none is open in the
\* parent's descriptor table.
C27_FailedSpawnClosesEndpoints ==
    ctl \in {"failed", "forkfail"} =>
        \A f \in FdNums : ptable[f] \notin Endpoints

\* The step that is a call of spawn.
SpawnCalled == mainPc = IdleCall /\ opsLeft' # opsLeft /\ lastCall'.op = "spawn"

\* C28: job ids are non-zero and strictly increasing: a spawn either
\* returns 0 and installs nothing, or returns an id that is greater than 0
\* and than every id returned before, and installs the job under it.
C28_JobIdsIncrease ==
    [][SpawnCalled =>
          LET id == lastCall'.ret IN
          \/ id = 0 /\ jobs' = jobs
          \/ /\ id > 0 /\ id \notin jobs
             /\ \A k \in jobs : id > k
             /\ jobs' = jobs \cup {id}]_vars

\* A second spawn has succeeded and returned an id above the first one's.
C28_Witness ==
    /\ lastCall.op = "spawn" /\ lastCall.ret > 1
    /\ lastCall.ret \in jobs /\ Cardinality(jobs) > 1

(***************************************************************************)
(* Properties of the shell without a controlling terminal                  *)
(***************************************************************************)
TerminalFunctions ==
    {"saveTerminalModes", "restoreTerminalModes", "enterRawMode",
     "exitRawMode"}

\* The step that is a call of one of the terminal functions.
TermCalled ==
    mainPc = IdleCall /\ opsLeft' # opsLeft /\ lastCall'.op \in TerminalFunctions

\* The state each call moves its job to.
Target(call) == CASE call = "foreground" -> "FOREGROUND"
                  [] call = "background" -> "BACKGROUND"
                  [] call = "handleCtrlZ" -> "STOPPED"

\* C29: without a controlling terminal no step touches the terminal's
\* owner or modes, the shell's saved modes, the raw-mode flag or a job's
\* saved modes; every terminal function reports success; and spawn,
\* foreground, background and handleCtrlZ still perform their transitions.
C29_NoTerminalNoOps ==
    [][~hasTty =>
          /\ UNCHANGED <<ttyOwner, termModes, shellModes, inRawMode, jmodes>>
          /\ TermCalled => lastCall'.ret = RetTrue
          /\ (mainPc.op # "notify" /\ mainPc'.op = "notify") =>
                /\ mainPc'.new = Target(mainPc'.call)
                /\ jstate'[mainPc'.job] = mainPc'.new
          /\ (SpawnCalled /\ lastCall'.ret > 0) =>
                jstate'[lastCall'.ret] \in {"FOREGROUND", "BACKGROUND"}]_vars

\* Without a terminal, a job has been spawned in the foreground and
\* stopped by handleCtrlZ, and enterRawMode has then reported success.
C29_Witness ==
    /\ ~hasTty
    /\ lastCall = Returned("enterRawMode", 0, RetTrue)
    /\ \E j \in jobs : /\ jstate[j] = "STOPPED"
                       /\ \E i \in 1..Len(notes) :
                              notes[i] = <<j, "FOREGROUND", "STOPPED">>

(***************************************************************************)
(* Properties of the order of delivery                                     *)
(***************************************************************************)
\* The bytes the child has written on the channel, in order.
Source == [k \in 1..produced |-> k]

C38_OneForeground == Cardinality(ForegroundJobs) <= 1

\* C39: whenever a terminal exists and no job is Foreground, the terminal
\* belongs to the shell's process group; in particular after a Foreground
\* job has terminated.
C39_ShellOwnsIdleTerminal ==
    (hasTty /\ ForegroundJobs = {}) => ttyOwner = shellPgid

\* Whether the table of StateMachine::transition has an edge old -> new.
IsEdge(old, new) ==
    \E e \in JobEvent :
        transition(old, e).valid /\ transition(old, e).newState = new

\* C40: every state change applied to a job is an edge of the transition
\* table: each notified pair (old, new) is one, and so is the marking of a
\* job by spawn, from NONE to the state it has while nothing else has
\* touched it.
C40_ChangesAreEdges ==
    /\ \A i \in 1..Len(notes) : IsEdge(notes[i][2], notes[i][3])
    /\ \A j \in jobs : JobNotes(j) = <<>> /\ mainPc.op # "notify"
                          => IsEdge("NONE", jstate[j])

(***************************************************************************)
(* Delivery to the on_data callbacks and to the terminal                   *)
(***************************************************************************)
\* Byte k of the child's output has been passed to the callbacks.
Notified(k) == \E i \in 1..Len(dataLog) : dataLog[i] = k

\* C31: every byte the drainer takes from the child's pipe is passed to the
\* registered callbacks by the drainer as it drains: once the drainer has
\* ended, each byte it put into the ring has reached the callbacks, whether
\* or not the application has called flushBuffers().
C31_CallbacksGetEveryByte ==
    drainer.pc = "done" =>
        \A i \in 1..Len(acceptedLog) : Notified(acceptedLog[i])

\* The bytes a drainer step takes out of the pipe: the chunk of one read().
DrainedChunk == SubSeq(pipe, 1, Len(pipe) - Len(pipe'))

\* C32: each chunk drained from channel 1 or 2 goes to the ring, and also
\* to the host's terminal output exactly while the foreground flag is true.
C32_ForegroundForwards ==
    [][(chan \in {1, 2} /\ drainer.pc = "poll" /\ Len(pipe') < Len(pipe))
          => /\ IsPrefix(acceptedLog, acceptedLog')
             /\ ttyOut' = IF foregroundMode THEN ttyOut \o DrainedChunk
                                            ELSE ttyOut]_vars

\* C33: a child that writes exactly as many bytes as the ring's capacity on
\* a blocking channel has all of them delivered to the consumer: once the
\* child has exited, the drainer has ended and the consumer has emptied the
\* ring, the consumer has read every byte, the one that did not fit at
\* once included.
C33_CapacityBytesDelivered ==
    (/\ ~dropOnOverflow(chan)
     /\ produced = DrainRingCap /\ left = 0
     /\ ChannelClosed /\ empty(writePos, readPos, capacity))
        => readLog = Source

(***************************************************************************)
(* Properties of the handle map                                            *)
(***************************************************************************)
\* The child has retrieved its map, and the source it parsed first is the
\* one the parent used.
ParsedParentString ==
    /\ hmRet.called
    /\ \/ hmHow = "env" /\ hmRet.envVarFirst
       \/ hmHow = "flag" /\ ~hmRet.envVarFirst

\* C34: round trip. Parsing the string serialize produced for the parent's
\* map yields, for each of the channels 3, 4 and 5, the handle the parent's
\* map holds, or no handle where the parent's map has none.
C34_RoundTrip ==
    ParsedParentString => \A i \in 3..5 : hmRet.first[i] = hmParent[i]

C34_Witness ==
    /\ ParsedParentString /\ hmHow = "flag"
    /\ hmParent[3] = 17 /\ hmParent[4] = INVALID_HANDLE_VALUE
    /\ hmParent[5] = 3
    /\ hmRet.first = hmParent

\* The child has retrieved its map from the string of a foreign launcher,
\* and the source it parsed first is the one that holds the string.
ParsedForeignString ==
    /\ hmRet.called /\ hmHow = "foreign"
    /\ hmRet.envVarFirst = hmEnv.set

ForeignString == IF hmEnv.set THEN hmEnv.val ELSE hmCmd.val

AllOf(s, P(_)) == \A k \in 1..Len(s) : P(s[k])

\* The format of a pair: decimal digits, a colon, hex digits with or
\* without 0x in front.
WellFormed(pair) ==
    LET colonPos == Find(pair, ":")
        idx == SubSeq(pair, 1, colonPos - 1)
        hex == SubSeq(pair, colonPos + 1, Len(pair))
        num == IF Len(hex) >= 2 /\ hex[1] = "0" /\ hex[2] \in {"x", "X"}
               THEN SubSeq(hex, 3, Len(hex)) ELSE hex
    IN  /\ colonPos > 0
        /\ idx # <<>> /\ AllOf(idx, IsDec)
        /\ num # <<>> /\ AllOf(num, IsHex)

\* The pairs of a map string that count: well formed, index 3, 4 or 5.
RECURSIVE Counting(_)
Counting(pairs) ==
    IF pairs = <<>> THEN <<>>
    ELSE LET pair == Head(pairs)
             keep == /\ WellFormed(pair)
                     /\ wtoi(SubSeq(pair, 1, Find(pair, ":") - 1)) \in 3..5
         IN  (IF keep THEN <<pair>> ELSE <<>>) \o Counting(Tail(pairs))

\* C35: bad input is tolerated. The map parsed from a string is the map
\* parsed from its well-formed pairs with index 3, 4 or 5 alone: malformed
\* pairs are skipped and pairs with another index change nothing.
C35_BadPairsIgnored ==
    ParsedForeignString =>
        hmRet.first = parsePairs(EmptyMap, Counting(GetLines(ForeignString)))

\* C36: fallback to the flag. When the child's environment has no map
\* variable and its command line carries the parent's map string, with
\* every handle of the map open in the child, the map the child retrieves
\* holds the handles of the flag for the channels 3, 4 and 5.
C36_FlagUsedWithoutVariable ==
    (/\ hmRet.called /\ hmHow = "flag"
     /\ ~hmEnv.set /\ hmCmd.set
     /\ hmLive = ParentHandles)
        => \A i \in 3..5 : hmRet.result[i] = hmParent[i]

\* C37: a handle that fails validation makes its own channel absent and no
\* other: the child retrieving the parent's map from the source it looks at
\* first ends up, for each of the channels 3, 4 and 5, with the parent's
\* handle if that handle is open in the child and with no handle if not.
C37_InvalidHandleIsAbsent ==
    ParsedParentString =>
        \A i \in 3..5 :
            hmRet.result[i] = IF hmParent[i] \in hmLive
                              THEN hmParent[i]
                              ELSE INVALID_HANDLE_VALUE

====
